---- MODULE Spec2Model ----
(***************************************************************************)
(* Model of the confidence-scoring, hotspot-focusing, result-caching and   *)
(* block-unification pipeline of the parallel-analyzer service.            *)
(*                                                                         *)
(* Conventions                                                             *)
(*  - A Python str is a sequence of one-character strings, so that split,  *)
(*    strip, lower, startswith and substring tests are computed, not       *)
(*    assumed.  None is the one-element sequence <<"<None>">>, which is no *)
(*    text.                                                                *)
(*  - A confidence is an integer number of hundredths (0.85 is 85).        *)
(*  - A pragma similarity is an exact fraction [num, den] with             *)
(*    den = 100 * (size of the token union), so that thresholds are        *)
(*    compared without rounding.                                           *)
(***************************************************************************)
EXTENDS Integers, Sequences, FiniteSets, TLC

VARIABLES
    verified_patterns,  \* OpenMPSpecValidator.verified_patterns (the corpus)
    v_in,               \* arguments of a validate_pragma_suggestion call
    v_out,              \* its ValidationResult, or NoResult before the call
    openmp_validator,   \* ConfidenceAnalyzer.openmp_validator
    sc_in,              \* arguments of a ConfidenceAnalyzer call
    sc_out,             \* its result, or NoResult before the call
    memory_cache,       \* PatternCache.memory_cache, in insertion order
    pattern_index,      \* PatternCache.pattern_index
    cache_file,         \* the entries of <cache_dir>/pattern_cache.json
    max_cache_size,     \* PatternCache.max_cache_size
    now,                \* time.time(), in hours
    cache_call,         \* the last PatternCache call and what it returned
    hs_in,              \* arguments of a filter_candidates_by_hotspots call
    hs_out,             \* the list it returns, or NoResult before the call
    dd_in,              \* argument of a deduplication call
    dd_out,             \* the list it returns, or NoResult before the call
    un_in,              \* arguments of a _unify_block_analysis call
    un_out,             \* the list it returns, or NoResult before the call
    cb_in,              \* the lines of an analyze_code_blocks call
    cb_out,             \* the list of blocks it returns, or NoResult before the call
    hybrid_analyzer,    \* the HybridAnalyzer shared by the requests: settings, collaborators
    analyses            \* the analyze_file calls in progress, one record each

validatorVars == <<verified_patterns, v_in, v_out>>
scorerVars == <<openmp_validator, sc_in, sc_out>>
cacheVars == <<memory_cache, pattern_index, cache_file, max_cache_size, now, cache_call>>
hotspotVars == <<hs_in, hs_out>>
dedupVars == <<dd_in, dd_out>>
unifyVars == <<un_in, un_out>>
blockVars == <<cb_in, cb_out>>
pipelineVars == <<hybrid_analyzer, analyses>>

vars == <<validatorVars, scorerVars, cacheVars, hotspotVars, dedupVars, unifyVars,
          blockVars, pipelineVars>>

NoResult == [status |-> "<none>"]
NoInput == [op |-> "<none>"]
None == <<"<None>">>

(***************************************************************************)
(* String literals of the source.                                          *)
(***************************************************************************)

\* the string literals of openmp_validator.py
VLit ==
    [hash_pragma |-> <<"#","p","r","a","g","m","a">>,
     omp |-> <<"o","m","p">>,
     parallel |-> <<"p","a","r","a","l","l","e","l">>,
     for |-> <<"f","o","r">>,
     parallel_for |-> <<"p","a","r","a","l","l","e","l"," ","f","o","r">>,
     simd |-> <<"s","i","m","d">>,
     parallel_for_simd |-> <<"p","a","r","a","l","l","e","l"," ","f","o","r"," ","s","i","m","d">>,
     task |-> <<"t","a","s","k">>,
     taskloop |-> <<"t","a","s","k","l","o","o","p">>,
     private |-> <<"p","r","i","v","a","t","e">>,
     reduction |-> <<"r","e","d","u","c","t","i","o","n">>,
     schedule |-> <<"s","c","h","e","d","u","l","e">>,
     collapse |-> <<"c","o","l","l","a","p","s","e">>,
     num_threads |-> <<"n","u","m","_","t","h","r","e","a","d","s">>,
     if |-> <<"i","f">>,
     default |-> <<"d","e","f","a","u","l","t">>,
     firstprivate |-> <<"f","i","r","s","t","p","r","i","v","a","t","e">>,
     lastprivate |-> <<"l","a","s","t","p","r","i","v","a","t","e">>,
     shared |-> <<"s","h","a","r","e","d">>,
     copyin |-> <<"c","o","p","y","i","n">>,
     proc_bind |-> <<"p","r","o","c","_","b","i","n","d">>,
     ordered |-> <<"o","r","d","e","r","e","d">>,
     nowait |-> <<"n","o","w","a","i","t">>,
     safelen |-> <<"s","a","f","e","l","e","n">>,
     simdlen |-> <<"s","i","m","d","l","e","n">>,
     linear |-> <<"l","i","n","e","a","r">>,
     aligned |-> <<"a","l","i","g","n","e","d">>,
     untied |-> <<"u","n","t","i","e","d">>,
     depend |-> <<"d","e","p","e","n","d">>,
     priority |-> <<"p","r","i","o","r","i","t","y">>,
     grainsize |-> <<"g","r","a","i","n","s","i","z","e">>,
     num_tasks |-> <<"n","u","m","_","t","a","s","k","s">>,
     SIMD |-> <<"S","I","M","D">>,
     parallel_for_path |-> <<"p","a","r","a","l","l","e","l","_","f","o","r">>,
     sections |-> <<"s","e","c","t","i","o","n","s">>,
     vector |-> <<"v","e","c","t","o","r">>,
     loop |-> <<"l","o","o","p">>,
     embarrassing |-> <<"e","m","b","a","r","r","a","s","s","i","n","g">>,
     vectorizable |-> <<"v","e","c","t","o","r","i","z","a","b","l","e">>,
     parallel_loop |-> <<"p","a","r","a","l","l","e","l","_","l","o","o","p">>,
     task_parallel |-> <<"t","a","s","k","_","p","a","r","a","l","l","e","l">>,
     embarrassingly_parallel |-> <<"e","m","b","a","r","r","a","s","s","i","n","g","l","y","_","p","a","r","a","l","l","e","l">>,
     general |-> <<"g","e","n","e","r","a","l">>,
     loop_vectorizable |-> <<"l","o","o","p","_","v","e","c","t","o","r","i","z","a","b","l","e">>,
     loop_parallel |-> <<"l","o","o","p","_","p","a","r","a","l","l","e","l">>]

\* the string literals of confidence_analyzer.py
CLit ==
    [pragma_omp |-> <<"#","p","r","a","g","m","a"," ","o","m","p">>,
     embarrassingly_parallel |-> <<"e","m","b","a","r","r","a","s","s","i","n","g","l","y","_","p","a","r","a","l","l","e","l">>,
     vectorizable |-> <<"v","e","c","t","o","r","i","z","a","b","l","e">>,
     advanced_reduction |-> <<"a","d","v","a","n","c","e","d","_","r","e","d","u","c","t","i","o","n">>,
     parallel_loop |-> <<"p","a","r","a","l","l","e","l","_","l","o","o","p">>,
     simple_parallel |-> <<"s","i","m","p","l","e","_","p","a","r","a","l","l","e","l">>,
     reduction |-> <<"r","e","d","u","c","t","i","o","n">>,
     stencil |-> <<"s","t","e","n","c","i","l">>,
     map_reduce |-> <<"m","a","p","_","r","e","d","u","c","e">>,
     no_dependencies |-> <<"n","o"," ","d","e","p","e","n","d","e","n","c","i","e","s">>,
     simple |-> <<"s","i","m","p","l","e">>,
     independent |-> <<"i","n","d","e","p","e","n","d","e","n","t">>,
     embarrassing |-> <<"e","m","b","a","r","r","a","s","s","i","n","g">>,
     parallel |-> <<"p","a","r","a","l","l","e","l">>,
     complex |-> <<"c","o","m","p","l","e","x">>,
     dependencies |-> <<"d","e","p","e","n","d","e","n","c","i","e","s">>,
     side_effects |-> <<"s","i","d","e"," ","e","f","f","e","c","t","s">>,
     unclear |-> <<"u","n","c","l","e","a","r">>,
     potential |-> <<"p","o","t","e","n","t","i","a","l">>,
     risky |-> <<"r","i","s","k","y">>,
     needs_verification |-> <<"n","e","e","d","s"," ","v","e","r","i","f","i","c","a","t","i","o","n">>,
     main |-> <<"m","a","i","n">>,
     unknown |-> <<"u","n","k","n","o","w","n">>,
     compute |-> <<"c","o","m","p","u","t","e">>,
     process |-> <<"p","r","o","c","e","s","s">>,
     calculate |-> <<"c","a","l","c","u","l","a","t","e">>,
     transform |-> <<"t","r","a","n","s","f","o","r","m">>]

(***************************************************************************)
(* Python string operations.                                               *)
(***************************************************************************)
Min(a, b) == IF a < b THEN a ELSE b
Max(a, b) == IF a > b THEN a ELSE b

IsSpace(c) == c \in {" ", "\t", "\n"}

UpperToLower ==
    [A |-> "a", B |-> "b", C |-> "c", D |-> "d", E |-> "e", F |-> "f", G |-> "g",
     H |-> "h", I |-> "i", J |-> "j", K |-> "k", L |-> "l", M |-> "m", N |-> "n",
     O |-> "o", P |-> "p", Q |-> "q", R |-> "r", S |-> "s", T |-> "t", U |-> "u",
     V |-> "v", W |-> "w", X |-> "x", Y |-> "y", Z |-> "z"]

\* str.lower()
Lower(s) == [i \in 1..Len(s) |-> IF s[i] \in DOMAIN UpperToLower THEN UpperToLower[s[i]] ELSE s[i]]

RECURSIVE LStrip(_)
LStrip(s) == IF s # <<>> /\ IsSpace(Head(s)) THEN LStrip(Tail(s)) ELSE s

RECURSIVE RStrip(_)
RStrip(s) == IF s # <<>> /\ IsSpace(s[Len(s)]) THEN RStrip(SubSeq(s, 1, Len(s) - 1)) ELSE s

\* mutant of Strip: the text is used as it is
StripNothing(s) == s

\* str.strip()
Strip(s) == RStrip(LStrip(s))

\* str.startswith(p)
StartsWith(s, p) == Len(p) <= Len(s) /\ SubSeq(s, 1, Len(p)) = p

\* p in s
Contains(s, p) == \E i \in 1..(Len(s) - Len(p) + 1) : SubSeq(s, i, i + Len(p) - 1) = p

\* index of the first character of s satisfying whitespace, Len(s) + 1 if none
FirstSpace(s) ==
    IF \E i \in 1..Len(s) : IsSpace(s[i])
    THEN CHOOSE i \in 1..Len(s) : IsSpace(s[i]) /\ \A j \in 1..(i - 1) : ~IsSpace(s[j])
    ELSE Len(s) + 1

\* str.split(): the maximal runs of non-whitespace
RECURSIVE SplitWs(_)
SplitWs(s) ==
    LET t == LStrip(s) IN
    IF t = <<>> THEN <<>>
    ELSE LET n == FirstSpace(t) IN <<SubSeq(t, 1, n - 1)>> \o SplitWs(SubSeq(t, n, Len(t)))

FirstChar(s, c) ==
    IF \E i \in 1..Len(s) : s[i] = c
    THEN CHOOSE i \in 1..Len(s) : s[i] = c /\ \A j \in 1..(i - 1) : s[j] # c
    ELSE Len(s) + 1

\* str.split(c) for a one-character separator: empty pieces are kept
RECURSIVE SplitChar(_, _)
SplitChar(s, c) ==
    LET n == FirstChar(s, c) IN
    IF n > Len(s) THEN <<s>>
    ELSE <<SubSeq(s, 1, n - 1)>> \o SplitChar(SubSeq(s, n + 1, Len(s)), c)

\* ' '.join(words)
RECURSIVE JoinSp(_)
JoinSp(words) ==
    IF words = <<>> THEN <<>>
    ELSE IF Len(words) = 1 THEN words[1]
    ELSE words[1] \o <<" ">> \o JoinSp(Tail(words))

Range(f) == {f[i] : i \in DOMAIN f}

(***************************************************************************)
(* Sample texts: directives, corpus files and corpus lines.                *)
(***************************************************************************)
\* ''
P_empty == <<>>
\* ' '
P_blank == <<" ">>
\* '\t\n '
P_blank_mixed == <<"\t","\n"," ">>
\* '#pragma omp parallel for'
P_parallel_for == <<"#","p","r","a","g","m","a"," ","o","m","p"," ","p","a","r","a","l","l","e","l"," ","f","o","r">>
\* '#pragma omp simd'
P_simd == <<"#","p","r","a","g","m","a"," ","o","m","p"," ","s","i","m","d">>
\* '#pragma omp parallel for reduction(+:sum)'
P_parallel_for_reduction == <<"#","p","r","a","g","m","a"," ","o","m","p"," ","p","a","r","a","l","l","e","l"," ","f","o","r"," ","r","e","d","u","c","t","i","o","n","(","+",":","s","u","m",")">>
\* '#pragma omp invalid_directive'
P_invalid_directive == <<"#","p","r","a","g","m","a"," ","o","m","p"," ","i","n","v","a","l","i","d","_","d","i","r","e","c","t","i","v","e">>
\* '#pragma omp '
P_prefix_only == <<"#","p","r","a","g","m","a"," ","o","m","p"," ">>
\* '#pragma omp'
P_bare_prefix == <<"#","p","r","a","g","m","a"," ","o","m","p">>
\* 'for'
P_for_only == <<"f","o","r">>
\* '#PRAGMA  OMP   Parallel   For'
P_upper_spaced == <<"#","P","R","A","G","M","A"," "," ","O","M","P"," "," "," ","P","a","r","a","l","l","e","l"," "," "," ","F","o","r">>
\* '#pragma omp simd nowait(x)'
P_nonstandard_clause == <<"#","p","r","a","g","m","a"," ","o","m","p"," ","s","i","m","d"," ","n","o","w","a","i","t","(","x",")">>
\* 'SIMD/a.c'
F_simd_path == <<"S","I","M","D","/","a",".","c">>
\* 'b.c'
F_loop_path == <<"b",".","c">>
\* '  #pragma omp simd'
L_simd == <<" "," ","#","p","r","a","g","m","a"," ","o","m","p"," ","s","i","m","d">>
\* '#pragma omp parallel for'
L_parallel_for == <<"#","p","r","a","g","m","a"," ","o","m","p"," ","p","a","r","a","l","l","e","l"," ","f","o","r">>
\* '\t#pragma omp parallel for reduction(+:sum)'
L_parallel_for_reduction == <<"\t","#","p","r","a","g","m","a"," ","o","m","p"," ","p","a","r","a","l","l","e","l"," ","f","o","r"," ","r","e","d","u","c","t","i","o","n","(","+",":","s","u","m",")">>
\* '#pragma omp parallel for simd'
L_parallel_for_simd == <<"#","p","r","a","g","m","a"," ","o","m","p"," ","p","a","r","a","l","l","e","l"," ","f","o","r"," ","s","i","m","d">>

\* sample candidate texts: reason, function name, suggested patch
\* ''
R_none == <<>>
\* 'Independent iterations'
R_positive == <<"I","n","d","e","p","e","n","d","e","n","t"," ","i","t","e","r","a","t","i","o","n","s">>
\* 'complex indexing'
R_negative == <<"c","o","m","p","l","e","x"," ","i","n","d","e","x","i","n","g">>
\* 'no dependencies'
R_both == <<"n","o"," ","d","e","p","e","n","d","e","n","c","i","e","s">>
\* 'Main'
FN_main == <<"M","a","i","n">>
\* 'computeSum'
FN_compute == <<"c","o","m","p","u","t","e","S","u","m">>
\* 'helper'
FN_helper == <<"h","e","l","p","e","r">>
\* ''
SP_empty == <<>>
\* '// manual analysis required'
SP_comment == <<"/","/"," ","m","a","n","u","a","l"," ","a","n","a","l","y","s","i","s"," ","r","e","q","u","i","r","e","d">>
\* '#pragma omp parallel for\nfor(;;)'
SP_valid == <<"#","p","r","a","g","m","a"," ","o","m","p"," ","p","a","r","a","l","l","e","l"," ","f","o","r","\n","f","o","r","(",";",";",")">>
\* '#pragma omp invalid_directive'
SP_invalid == <<"#","p","r","a","g","m","a"," ","o","m","p"," ","i","n","v","a","l","i","d","_","d","i","r","e","c","t","i","v","e">>
\* 'x; #pragma omp for'
SP_inline == <<"x",";"," ","#","p","r","a","g","m","a"," ","o","m","p"," ","f","o","r">>
\* '  #pragma omp simd'
SP_indented == <<" "," ","#","p","r","a","g","m","a"," ","o","m","p"," ","s","i","m","d">>

\* sample candidate keys: file names and function names
\* 'a'
D_file_a == <<"a">>
\* 'a1'
D_file_a1 == <<"a","1">>
\* 'f'
D_fn_f == <<"f">>
\* 'ns::f'
D_fn_qualified == <<"n","s",":",":","f">>

\* self.openmp_validator = None
NoValidator == [available |-> FALSE, verified_patterns |-> <<>>]

\* a component no call is made on
IdleValidator ==
    /\ verified_patterns = <<>>
    /\ v_in = NoInput
    /\ v_out = NoResult

IdleScorer ==
    /\ openmp_validator = NoValidator
    /\ sc_in = NoInput
    /\ sc_out = NoResult

IdleCache ==
    /\ memory_cache = <<>>
    /\ pattern_index = <<>>
    /\ cache_file = <<>>
    /\ max_cache_size = 0
    /\ now = 0
    /\ cache_call = NoInput

IdleHotspot == hs_in = NoInput /\ hs_out = NoResult

IdleDedup == dd_in = NoInput /\ dd_out = NoResult

IdleUnify == un_in = NoInput /\ un_out = NoResult

IdleBlocks == cb_in = NoInput /\ cb_out = NoResult

IdlePipeline == hybrid_analyzer = NoInput /\ analyses = <<>>


(***************************************************************************)
(* OpenMPSpecValidator (openmp_validator.py)                               *)
(***************************************************************************)

\* _load_pragma_syntax_rules: the known directives, in dictionary order
KnownDirectives ==
    <<VLit.parallel, VLit.parallel_for, VLit.simd, VLit.parallel_for_simd, VLit.task, VLit.taskloop>>

\* _load_pragma_syntax_rules: the "clauses" list of a known directive
RuleClauses(directive) ==
    CASE directive = VLit.parallel ->
            {VLit.num_threads, VLit.if, VLit.default, VLit.private, VLit.firstprivate,
             VLit.shared, VLit.copyin, VLit.reduction, VLit.proc_bind}
      [] directive = VLit.parallel_for ->
            {VLit.private, VLit.firstprivate, VLit.lastprivate, VLit.reduction,
             VLit.schedule, VLit.collapse, VLit.ordered, VLit.nowait}
      [] directive = VLit.simd ->
            {VLit.private, VLit.lastprivate, VLit.reduction, VLit.collapse,
             VLit.safelen, VLit.simdlen, VLit.linear, VLit.aligned, VLit.if}
      [] directive = VLit.parallel_for_simd ->
            {VLit.private, VLit.firstprivate, VLit.lastprivate, VLit.reduction,
             VLit.schedule, VLit.collapse, VLit.safelen, VLit.simdlen, VLit.linear, VLit.aligned}
      [] directive = VLit.task ->
            {VLit.if, VLit.untied, VLit.default, VLit.private, VLit.firstprivate,
             VLit.shared, VLit.depend, VLit.priority}
      [] directive = VLit.taskloop ->
            {VLit.shared, VLit.private, VLit.firstprivate, VLit.lastprivate,
             VLit.reduction, VLit.if, VLit.untied, VLit.collapse, VLit.grainsize, VLit.num_tasks}
      [] OTHER -> {}

\* _determine_pattern_type
DeterminePatternType(file_path, pragma) ==
    IF Contains(file_path, VLit.SIMD) \/ Contains(Lower(pragma), VLit.simd) THEN VLit.vectorizable
    ELSE IF Contains(file_path, VLit.parallel_for_path) \/ Contains(pragma, VLit.parallel_for) THEN VLit.parallel_loop
    ELSE IF Contains(file_path, VLit.reduction) \/ Contains(pragma, VLit.reduction) THEN VLit.reduction
    ELSE IF Contains(file_path, VLit.task) \/ Contains(pragma, VLit.task) THEN VLit.task_parallel
    ELSE IF Contains(file_path, VLit.sections) \/ Contains(pragma, VLit.sections) THEN VLit.sections
    ELSE IF Contains(pragma, VLit.parallel) THEN VLit.embarrassingly_parallel
    ELSE VLit.general

\* _extract_patterns_from_file, for one line of a corpus file that holds
\* '#pragma omp': the OpenMPPattern appended to verified_patterns
ExtractPattern(file_path, line) ==
    LET pragma_text == Strip(line) IN
    [pragma |-> pragma_text,
     source_file |-> file_path,
     pattern_type |-> DeterminePatternType(file_path, pragma_text)]

\* re.sub(r'^\s*#pragma\s+omp\s+', '', pragma, flags=re.IGNORECASE)
StripPragmaPrefix(pragma) ==
    LET a == LStrip(pragma) IN
    IF ~StartsWith(Lower(a), VLit.hash_pragma) THEN pragma
    ELSE LET b == SubSeq(a, Len(VLit.hash_pragma) + 1, Len(a))
             b1 == LStrip(b)
         IN IF Len(b1) = Len(b) \/ ~StartsWith(Lower(b1), VLit.omp) THEN pragma
            ELSE LET c == SubSeq(b1, Len(VLit.omp) + 1, Len(b1))
                     c1 == LStrip(c)
                 IN IF Len(c1) = Len(c) THEN pragma ELSE c1

\* _normalize_pragma
NormalizePragma(pragma) == Lower(JoinSp(SplitWs(StripPragmaPrefix(pragma))))

\* "not pattern_type"
Falsy(s) == s = None \/ s = <<>>

\* _find_exact_match: index into verified_patterns of the first exact match, 0 for None
FindExactMatch(patterns, normalized_pragma, pattern_type) ==
    LET hits == {i \in 1..Len(patterns) :
                    /\ NormalizePragma(patterns[i].pragma) = normalized_pragma
                    /\ (Falsy(pattern_type) \/ patterns[i].pattern_type = pattern_type)}
    IN IF hits = {} THEN 0 ELSE CHOOSE i \in hits : \A j \in hits : i <= j

\* _normalize_pattern_type
NormalizePatternType(pattern_type) ==
    IF Falsy(pattern_type) THEN <<>>
    ELSE LET pattern_lower == Lower(pattern_type) IN
         IF Contains(pattern_lower, VLit.vector) \/ Contains(pattern_lower, VLit.simd) THEN VLit.loop_vectorizable
         ELSE IF \/ Contains(pattern_lower, VLit.loop)
                 \/ Contains(pattern_lower, VLit.parallel)
                 \/ Contains(pattern_lower, VLit.embarrassing) THEN VLit.loop_parallel
         ELSE IF Contains(pattern_lower, VLit.reduction) THEN VLit.reduction
         ELSE IF Contains(pattern_lower, VLit.task) THEN VLit.task_parallel
         ELSE pattern_lower

\* _are_compatible_loop_types
AreCompatibleLoopTypes(type1, type2) ==
    /\ type1 \in {VLit.loop_vectorizable, VLit.loop_parallel}
    /\ type2 \in {VLit.loop_vectorizable, VLit.loop_parallel}

\* _is_nested_loop_pattern
IsNestedLoopPattern(pragma1, pragma2) ==
    LET HasLoop(p) == \E kw \in {VLit.parallel_for, VLit.simd, VLit.parallel, VLit.for} : Contains(p, kw)
    IN HasLoop(pragma1) /\ HasLoop(pragma2)

\* _calculate_pragma_similarity: the fraction num / den, capped at 1.0
CalculatePragmaSimilarity(pragma1, pragma2) ==
    LET tokens1 == Range(SplitWs(pragma1))
        tokens2 == Range(SplitWs(pragma2))
        intersection == Cardinality(tokens1 \cap tokens2)
        union == Cardinality(tokens1 \cup tokens2)
        u == IF union > 0 THEN union ELSE 1
        Equivalent(p1, p2) ==
            \/ (p1 \subseteq tokens1 /\ p2 \subseteq tokens2)
            \/ (p1 \subseteq tokens2 /\ p2 \subseteq tokens1)
        loop_boost ==
            IF \/ Equivalent({VLit.parallel, VLit.for}, {VLit.parallel, VLit.for})
               \/ Equivalent({VLit.simd}, {VLit.parallel, VLit.for, VLit.simd})
               \/ Equivalent({VLit.for}, {VLit.parallel, VLit.for})
            THEN 20 ELSE 0
        clause_boost ==
            5 * Cardinality({c \in {VLit.private, VLit.reduction, VLit.schedule, VLit.collapse} :
                                c \in tokens1 /\ c \in tokens2})
        num == 100 * intersection + (loop_boost + clause_boost) * u
    IN [num |-> Min(100 * u, num), den |-> 100 * u]

\* a / b > c / d for fractions with positive denominators
FracGreater(x, y) == x.num * y.den > y.num * x.den

\* _find_similar_pattern: the boosts added to the base similarity of one pattern
PatternBoost(normalized_pragma, normalized_pattern_type, pattern_pragma, pattern_normalized_type) ==
    (IF pattern_normalized_type # <<>> /\ normalized_pattern_type # <<>>
     THEN IF pattern_normalized_type = normalized_pattern_type THEN 15
          ELSE IF AreCompatibleLoopTypes(normalized_pattern_type, pattern_normalized_type) THEN 10
          ELSE 0
     ELSE 0)
    + (IF IsNestedLoopPattern(normalized_pragma, pattern_pragma) THEN 5 ELSE 0)

\* _find_similar_pattern: similarity = base + type boost + nested boost
BoostedSimilarity(base, boost) ==
    [num |-> base.num + boost * (base.den \div 100), den |-> base.den]

\* _find_similar_pattern: the similarity of one pattern of the corpus
PatternSimilarity(normalized_pragma, normalized_pattern_type, pattern_pragma, pattern_type) ==
    BoostedSimilarity(CalculatePragmaSimilarity(normalized_pragma, pattern_pragma),
                      PatternBoost(normalized_pragma, normalized_pattern_type, pattern_pragma,
                                   NormalizePatternType(pattern_type)))

\* _find_similar_pattern: "if similarity > best_score and similarity >= 0.6"
BetterMatch(best, n, similarity) ==
    IF FracGreater(similarity, best.score) /\ 100 * similarity.num >= 60 * similarity.den
    THEN [idx |-> n, score |-> similarity]
    ELSE best

\* _find_similar_pattern: the loop over verified_patterns[1..n];
\* [idx |-> best_match (0 for None), score |-> best_score]
RECURSIVE SimilarScan(_, _, _, _)
SimilarScan(patterns, n, normalized_pragma, normalized_pattern_type) ==
    IF n = 0 THEN [idx |-> 0, score |-> [num |-> 0, den |-> 100]]
    ELSE BetterMatch(SimilarScan(patterns, n - 1, normalized_pragma, normalized_pattern_type), n,
                     PatternSimilarity(normalized_pragma, normalized_pattern_type,
                                       NormalizePragma(patterns[n].pragma),
                                       patterns[n].pattern_type))

\* _find_similar_pattern
FindSimilarPattern(patterns, normalized_pragma, pattern_type) ==
    SimilarScan(patterns, Len(patterns), normalized_pragma, NormalizePatternType(pattern_type))

\* _check_syntax_compliance: the loop that separates directive words from
\* clauses, over parts[1..n]; in_clause is the flag after part n
RECURSIVE SplitDirective(_, _)
SplitDirective(parts, n) ==
    IF n = 0 THEN [directive_parts |-> <<>>, clauses |-> <<>>, in_clause |-> FALSE]
    ELSE LET prev == SplitDirective(parts, n - 1)
             part == parts[n]
         IN IF Contains(part, <<"(">>) \/ prev.in_clause
            THEN [directive_parts |-> prev.directive_parts,
                  clauses |-> Append(prev.clauses, part),
                  in_clause |-> ~Contains(part, <<")">>)]
            ELSE [directive_parts |-> Append(prev.directive_parts, part),
                  clauses |-> prev.clauses,
                  in_clause |-> prev.in_clause]

\* _check_syntax_compliance
CheckSyntaxCompliance(normalized_pragma) ==
    LET parts == SplitWs(normalized_pragma) IN
    IF parts = <<>> THEN [valid |-> FALSE, notes |-> <<"Empty pragma">>]
    ELSE LET sp == SplitDirective(parts, Len(parts))
             directive == JoinSp(sp.directive_parts)
             clause_names == [i \in 1..Len(sp.clauses) |-> SplitChar(sp.clauses[i], "(")[1]]
         IN IF directive \notin Range(KnownDirectives)
            THEN IF \E k \in 1..Len(KnownDirectives) :
                        \/ Contains(directive, KnownDirectives[k])
                        \/ Contains(KnownDirectives[k], directive)
                 THEN [valid |-> TRUE, notes |-> <<"Directive similar to known pattern">>]
                 ELSE [valid |-> FALSE, notes |-> <<"Unknown directive">>]
            ELSE [valid |-> TRUE,
                  notes |-> <<"Valid OpenMP directive">> \o
                            [i \in 1..Cardinality({j \in 1..Len(clause_names) :
                                                     clause_names[j] \notin RuleClauses(directive)})
                                |-> "Warning: Clause not standard"]]

\* mutant of ValidationResult: a similar match is given the boost of an exact one
ValidationResultSimilarAsVerified(status, confidence_boost, reference, similarity, notes) ==
    [status |-> status,
     confidence_boost |-> IF status = "similar" THEN 30 ELSE confidence_boost,
     reference_source |-> reference, similarity_score |-> similarity,
     compliance_notes |-> notes]

\* ValidationResult(...)
ValidationResult(status, confidence_boost, reference, similarity, notes) ==
    [status |-> status, confidence_boost |-> confidence_boost,
     reference_source |-> reference, similarity_score |-> similarity,
     compliance_notes |-> notes]

ZeroSimilarity == [num |-> 0, den |-> 100]
OneSimilarity == [num |-> 100, den |-> 100]

\* mutant of SelectResult: the similar match is consulted before the exact one
SelectResultSimilarFirst(exact_match, similar_match, syntax_check) ==
    IF similar_match.idx # 0
    THEN ValidationResult("similar", 15, similar_match.idx, similar_match.score,
                          <<"Similar pattern found">>)
    ELSE IF exact_match # 0
    THEN ValidationResult("verified", 30, exact_match, OneSimilarity, <<"Exact match found">>)
    ELSE IF syntax_check.valid
    THEN ValidationResult("compliant", 10, 0, ZeroSimilarity, syntax_check.notes)
    ELSE ValidationResult("non_compliant", -15, 0, ZeroSimilarity, syntax_check.notes)

\* validate_pragma_suggestion: the result, from the three lookups
SelectResult(exact_match, similar_match, syntax_check) ==
    IF exact_match # 0
    THEN ValidationResult("verified", 30, exact_match, OneSimilarity, <<"Exact match found">>)
    ELSE IF similar_match.idx # 0
    THEN ValidationResult("similar", 15, similar_match.idx, similar_match.score,
                          <<"Similar pattern found">>)
    ELSE IF syntax_check.valid
    THEN ValidationResult("compliant", 10, 0, ZeroSimilarity, syntax_check.notes)
    ELSE ValidationResult("non_compliant", -15, 0, ZeroSimilarity, syntax_check.notes)

\* validate_pragma_suggestion, after the pragma is normalized
ValidateNormalized(patterns, normalized_pragma, pattern_type) ==
    SelectResult(FindExactMatch(patterns, normalized_pragma, pattern_type),
                 FindSimilarPattern(patterns, normalized_pragma, pattern_type),
                 CheckSyntaxCompliance(normalized_pragma))

\* validate_pragma_suggestion
ValidatePragmaSuggestion(patterns, pragma, pattern_type) ==
    IF Strip(pragma) = <<>>
    THEN ValidationResult("non_compliant", -20, 0, ZeroSimilarity, <<"Empty pragma provided">>)
    ELSE ValidateNormalized(patterns, NormalizePragma(pragma), pattern_type)

(***************************************************************************)
(* Specification of one validate_pragma_suggestion call on a validator     *)
(* whose corpus was loaded at construction.                                *)
(***************************************************************************)
MaxCorpus == 2

\* the (file, line) pairs a corpus directory may hold
CorpusEntries ==
    {ExtractPattern(F_simd_path, L_simd),
     ExtractPattern(F_loop_path, L_parallel_for),
     ExtractPattern(F_loop_path, L_parallel_for_reduction),
     ExtractPattern(F_simd_path, L_parallel_for_simd)}

\* _load_openmp_patterns: no corpus directory gives the empty list
Corpora == UNION {[1..n -> CorpusEntries] : n \in 0..MaxCorpus}

PragmaInputs ==
    {P_empty, P_blank, P_blank_mixed, P_parallel_for, P_simd, P_parallel_for_reduction,
     P_invalid_directive, P_prefix_only, P_bare_prefix, P_for_only, P_upper_spaced,
     P_nonstandard_clause}

PatternTypeInputs ==
    {None, <<>>, VLit.vectorizable, VLit.parallel_loop, VLit.reduction, CLit.unknown}

InitValidator ==
    /\ verified_patterns \in Corpora
    /\ v_in \in [pragma : PragmaInputs, pattern_type : PatternTypeInputs]
    /\ v_out = NoResult
    /\ IdleScorer /\ IdleCache /\ IdleHotspot /\ IdleDedup /\ IdleUnify /\ IdlePipeline
    /\ IdleBlocks

Validate ==
    /\ v_out = NoResult
    /\ v_out' = ValidatePragmaSuggestion(verified_patterns, v_in.pragma, v_in.pattern_type)
    /\ UNCHANGED <<verified_patterns, v_in, scorerVars, cacheVars, hotspotVars, dedupVars, unifyVars,
                       pipelineVars,
                   blockVars>>

NextValidator == Validate

SpecValidator == InitValidator /\ [][NextValidator]_vars

(***************************************************************************)
(* Python floats: IEEE 754 binary64 with round-half-even, for the          *)
(* non-negative values below 128 that the statistics of a batch take.      *)
(*                                                                         *)
(* A value is a sequence of FixedWidth bits, most significant first, bit i *)
(* of weight 2^(IntBits - i).  A float is a value whose one-bits span at   *)
(* most Significand positions.  Every float from 2^-10 up to 128 is such a *)
(* value, and a result of 2^-9 or more is rounded as the hardware rounds   *)
(* it: the scores from 0.01 and their averages over up to 4 candidates.    *)
(***************************************************************************)
IntBits == 7
FixedWidth == 70
Significand == 53

\* the bits of a value, as a sequence
Bits(f) == SubSeq(f, 1, FixedWidth)

FixedZero == Bits([i \in 1..FixedWidth |-> 0])

\* the integer k, 0 <= k < 128
FixedOfInt(k) ==
    Bits([i \in 1..FixedWidth |-> IF i <= IntBits THEN (k \div (2 ^ (IntBits - i))) % 2 ELSE 0])

\* the carry that comes into bit i of a + b: some lower bit generates a carry
\* and every bit between passes it on
CarryInto(a, b, i) ==
    \E j \in (i + 1)..FixedWidth :
        /\ a[j] + b[j] = 2
        /\ \A k \in (i + 1)..(j - 1) : a[k] + b[k] = 1

\* a + b, exactly
FixedAdd(a, b) ==
    Bits([i \in 1..FixedWidth |-> (a[i] + b[i] + (IF CarryInto(a, b, i) THEN 1 ELSE 0)) % 2])

\* a <= b
FixedLeq(a, b) ==
    \/ a = b
    \/ \E i \in 1..FixedWidth : a[i] < b[i] /\ \A j \in 1..(i - 1) : a[j] = b[j]

\* the position of the first one-bit of a value that is not zero
LeadingOne(x) == CHOOSE i \in 1..FixedWidth : x[i] = 1 /\ \A j \in 1..(i - 1) : x[j] = 0

\* k units of weight 2^(IntBits - last), 0 <= k < 16
UnitsAt(k, last) ==
    Bits([i \in 1..FixedWidth |->
            IF i <= last /\ last - i < 4 THEN (k \div (2 ^ (last - i))) % 2 ELSE 0])

\* x with the bits after position last cleared
TruncateAt(x, last) == Bits([i \in 1..FixedWidth |-> IF i <= last THEN x[i] ELSE 0])

\* x rounded at position last, half to even; inexact: x stands for a value
\* that is greater than x by less than its last bit
RoundAt(x, last, inexact) ==
    IF last >= FixedWidth THEN x
    ELSE IF /\ x[last + 1] = 1
            /\ \/ inexact
               \/ \E i \in (last + 2)..FixedWidth : x[i] = 1
               \/ x[last] = 1
         THEN FixedAdd(TruncateAt(x, last), UnitsAt(1, last))
         ELSE TruncateAt(x, last)

\* the float nearest to x
RoundToFloat(x, inexact) ==
    IF x = FixedZero THEN x ELSE RoundAt(x, LeadingOne(x) + Significand - 1, inexact)

\* float + float
FloatAdd(a, b) == RoundToFloat(FixedAdd(a, b), FALSE)

\* the integer that bits from..to of x spell, for at most 8 bits
BitsValue(x, from, to) ==
    (IF from <= to THEN x[to] ELSE 0)
    + (IF from <= to - 1 THEN 2 * x[to - 1] ELSE 0)
    + (IF from <= to - 2 THEN 4 * x[to - 2] ELSE 0)
    + (IF from <= to - 3 THEN 8 * x[to - 3] ELSE 0)
    + (IF from <= to - 4 THEN 16 * x[to - 4] ELSE 0)
    + (IF from <= to - 5 THEN 32 * x[to - 5] ELSE 0)
    + (IF from <= to - 6 THEN 64 * x[to - 6] ELSE 0)
    + (IF from <= to - 7 THEN 128 * x[to - 7] ELSE 0)

\* long division of x by the integer n, 8 bits at a step: the remainder left
\* after bit c, a multiple of 8
RECURSIVE RemainderAtByte(_, _, _)
RemainderAtByte(x, n, c) ==
    IF c = 0 THEN 0
    ELSE (256 * RemainderAtByte(x, n, c - 8) + BitsValue(x, c - 7, c)) % n

\* long division of x by the integer n: the remainder left after bit i
RemainderAfter(x, n, i) ==
    ((2 ^ (i % 8)) * RemainderAtByte(x, n, i - (i % 8)) + BitsValue(x, i - (i % 8) + 1, i)) % n

\* long division of x by the integer n: the bits of the quotient
QuotientBits(x, n) ==
    Bits([i \in 1..FixedWidth |-> (2 * RemainderAfter(x, n, i - 1) + x[i]) \div n])

\* float / int
FloatDivInt(x, n) == RoundToFloat(QuotientBits(x, n), RemainderAfter(x, n, FixedWidth) # 0)

\* the floats of the scores 0.01 .. 1.00, by their hundredths
HundredthFloats == SubSeq([h \in 1..100 |-> FloatDivInt(FixedOfInt(h), 100)], 1, 100)

\* the float of a score given in hundredths, 0 <= h <= 100: 0.95 for 95
FloatOfHundredths(h) == IF h = 0 THEN FixedZero ELSE HundredthFloats[h]

\* sum(...) over floats: the additions from left to right, starting from 0
RECURSIVE FloatSum(_)
FloatSum(s) ==
    IF s = <<>> THEN FixedZero ELSE FloatAdd(FloatSum(SubSeq(s, 1, Len(s) - 1)), s[Len(s)])

\* x moved up by k units in its last place
UlpsAbove(x, k) ==
    IF x = FixedZero THEN x ELSE FixedAdd(x, UnitsAt(k, LeadingOne(x) + Significand - 1))

(***************************************************************************)
(* ConfidenceAnalyzer (confidence_analyzer.py)                             *)
(***************************************************************************)

\* self.min_confidence_threshold, self.high_confidence_threshold
MinConfidenceThreshold == 60
HighConfidenceThreshold == 80

\* self.pattern_confidence.get(candidate_type, 0.5)
PatternConfidence(candidate_type) ==
    CASE candidate_type = CLit.embarrassingly_parallel -> 95
      [] candidate_type = CLit.vectorizable -> 85
      [] candidate_type = CLit.advanced_reduction -> 90
      [] candidate_type = CLit.parallel_loop -> 70
      [] candidate_type = CLit.simple_parallel -> 65
      [] candidate_type = CLit.reduction -> 80
      [] candidate_type = CLit.stencil -> 75
      [] candidate_type = CLit.map_reduce -> 85
      [] OTHER -> 50

\* self.risk_factors
RiskFactors ==
    [function_calls |-> -15, pointer_arithmetic |-> -10, complex_control_flow |-> -20,
     global_variables |-> -10, dynamic_memory |-> -15, recursive_calls |-> -30,
     volatile_variables |-> -25, inline_assembly |-> -50]

\* self.boost_factors
BoostFactors ==
    [simple_array_access |-> 10, known_loop_bounds |-> 10, local_variables_only |-> 5,
     arithmetic_heavy |-> 8, read_only_data |-> 12, regular_memory_pattern |-> 15,
     small_loop_body |-> 5]

RECURSIVE SumOver(_, _)
SumOver(f, S) ==
    IF S = {} THEN 0
    ELSE LET x == CHOOSE y \in S : TRUE IN f[x] + SumOver(f, S \ {x})

\* mutant of Clamp: only the upper limit is applied
ClampAboveOnly(lo, hi, x) == Min(hi, x)

\* max(lo, min(hi, x))
Clamp(lo, hi, x) == Max(lo, Min(hi, x))

\* _get_base_pattern_confidence
GetBasePatternConfidence(candidate) == PatternConfidence(candidate.candidate_type)

\* _analyze_code_context.  The code context is given by the factors its
\* regular expressions and conditions detect in the text: ctx.risk is the set
\* of risk_patterns that match, ctx.boost the set of boost_patterns that hold.
AnalyzeCodeContext(ctx) ==
    Clamp(-50, 30, SumOver(RiskFactors, ctx.risk) + SumOver(BoostFactors, ctx.boost))

\* _analyze_candidate_metadata: the modifier, from the lowered reason and function
\* name and the hotspot_priority flag
MetadataModifier(reason, function_name, hotspot_priority) ==
    (IF hotspot_priority THEN 10 ELSE 0)
    + (IF \E kw \in {CLit.no_dependencies, CLit.simple, CLit.independent, CLit.embarrassing,
                     CLit.vectorizable, CLit.reduction, CLit.parallel} : Contains(reason, kw)
       THEN 5 ELSE 0)
    + (IF \E kw \in {CLit.complex, CLit.dependencies, CLit.side_effects, CLit.unclear,
                     CLit.potential, CLit.risky, CLit.needs_verification} : Contains(reason, kw)
       THEN -8 ELSE 0)
    + (IF function_name \in {CLit.main, CLit.unknown, <<>>} THEN -5
       ELSE IF \E hint \in {CLit.compute, CLit.process, CLit.calculate, CLit.transform} :
                   Contains(function_name, hint)
       THEN 5 ELSE 0)

\* _analyze_candidate_metadata
AnalyzeCandidateMetadata(candidate) ==
    MetadataModifier(Lower(candidate.reason), Lower(candidate.function),
                     candidate.hotspot_priority)

\* "if line.strip().startswith('#pragma omp')": the stripped line is kept
KeepPragmaLine(kept, line) ==
    IF StartsWith(line, CLit.pragma_omp) THEN Append(kept, line) ELSE kept

\* the pragma lines among lines[1..n]
RECURSIVE PragmaLinesUpTo(_, _)
PragmaLinesUpTo(lines, n) ==
    IF n = 0 THEN <<>>
    ELSE KeepPragmaLine(PragmaLinesUpTo(lines, n - 1), Strip(lines[n]))

PragmaLinesOf(lines) == PragmaLinesUpTo(lines, Len(lines))

\* the lines of suggested_patch that, stripped, start with '#pragma omp'
PragmaLines(suggested_patch) == PragmaLinesOf(SplitChar(suggested_patch, "\n"))

\* the status and confidence_boost of a ValidationResult
ComplianceOf(validation_result) ==
    [status |-> validation_result.status,
     confidence_boost |-> validation_result.confidence_boost]

\* _validate_openmp_compliance, once the pragma lines are extracted
ValidatePragmaLines(validator, pragma_lines, candidate) ==
    IF pragma_lines = <<>>
    THEN [status |-> "no_pragma", confidence_boost |-> 0]
    ELSE ComplianceOf(ValidatePragmaSuggestion(validator.verified_patterns, pragma_lines[1],
                                               candidate.candidate_type))

\* mutant of ValidateOpenmpCompliance: the suggested patch goes to the validator
\* without the check that it holds a pragma line
ValidateOpenmpComplianceUnguarded(validator, candidate) ==
    IF ~validator.available
    THEN [status |-> "unavailable", confidence_boost |-> 0]
    ELSE ComplianceOf(ValidatePragmaSuggestion(validator.verified_patterns,
                                               candidate.suggested_patch,
                                               candidate.candidate_type))

\* _validate_openmp_compliance.  validator is self.openmp_validator: available is
\* FALSE when it is None (the validator could not be imported or constructed).
ValidateOpenmpCompliance(validator, candidate) ==
    IF ~validator.available
    THEN [status |-> "unavailable", confidence_boost |-> 0]
    ELSE IF candidate.suggested_patch = <<>> \/ ~Contains(candidate.suggested_patch, CLit.pragma_omp)
    THEN [status |-> "no_pragma", confidence_boost |-> 0]
    ELSE ValidatePragmaLines(validator, PragmaLines(candidate.suggested_patch), candidate)

\* analyze_confidence_with_validation: the result, from the four components
ConfidenceResult(base_pattern, context_modifier, metadata_modifier, validation_result) ==
    [confidence |->
        Clamp(0, 100, base_pattern + context_modifier + metadata_modifier
                          + validation_result.confidence_boost),
     confidence_breakdown |->
        [base_pattern |-> base_pattern,
         code_context |-> context_modifier,
         metadata |-> metadata_modifier,
         openmp_validation |-> validation_result.confidence_boost],
     verification_status |-> validation_result.status]

\* analyze_confidence_with_validation; has_context is "if code_context:"
AnalyzeConfidenceWithValidation(validator, candidate, has_context, ctx) ==
    ConfidenceResult(GetBasePatternConfidence(candidate),
                     IF has_context THEN AnalyzeCodeContext(ctx) ELSE 0,
                     AnalyzeCandidateMetadata(candidate),
                     ValidateOpenmpCompliance(validator, candidate))

\* analyze_confidence
AnalyzeConfidence(validator, candidate, has_context, ctx) ==
    AnalyzeConfidenceWithValidation(validator, candidate, has_context, ctx).confidence

\* _extract_code_context.  code_content is given line by line: code_content[n]
\* is the context (has_context, risk, boost) of the window around line n.
NoContext == [has_context |-> FALSE, risk |-> {}, boost |-> {}]

ExtractCodeContext(code_content, target_line) ==
    IF code_content = <<>> \/ target_line <= 0 \/ target_line > Len(code_content)
    THEN NoContext
    ELSE code_content[target_line]

\* sorted(..., key=confidence_score, reverse=True): stable insertion of x
RECURSIVE InsertByScore(_, _)
InsertByScore(sorted, x) ==
    IF sorted = <<>> THEN <<x>>
    ELSE IF Head(sorted).confidence_score >= x.confidence_score
         THEN <<Head(sorted)>> \o InsertByScore(Tail(sorted), x)
         ELSE <<x>> \o sorted

RECURSIVE SortByScore(_)
SortByScore(s) ==
    IF s = <<>> THEN <<>>
    ELSE InsertByScore(SortByScore(SubSeq(s, 1, Len(s) - 1)), s[Len(s)])

SeqMin(s) == CHOOSE x \in Range(s) : \A y \in Range(s) : x <= y
SeqMax(s) == CHOOSE x \in Range(s) : \A y \in Range(s) : x >= y

\* the candidate dict with candidate['confidence_score'] = confidence
WithScore(candidate, confidence) ==
    [k \in DOMAIN candidate \cup {"confidence_score"} |->
        IF k = "confidence_score" THEN confidence ELSE candidate[k]]

\* one iteration of the scoring loop of filter_by_confidence
ScoreCandidate(validator, candidate, context) ==
    WithScore(candidate, AnalyzeConfidence(validator, candidate, context.has_context, context))

\* filter_by_confidence: the scoring loop
ScoreAll(validator, candidates, code_content) ==
    [i \in 1..Len(candidates) |->
        ScoreCandidate(validator, candidates[i],
                       ExtractCodeContext(code_content, candidates[i].line))]

\* "if confidence >= threshold: append", over s in order
RECURSIVE KeepAtLeast(_, _)
KeepAtLeast(s, threshold) ==
    IF s = <<>> THEN <<>>
    ELSE IF Head(s).confidence_score >= threshold
         THEN <<Head(s)>> \o KeepAtLeast(Tail(s), threshold)
         ELSE KeepAtLeast(Tail(s), threshold)

ConfidenceScores(scored) == [i \in 1..Len(scored) |-> scored[i].confidence_score]

\* sum(c['confidence_score'] for c in scored_candidates) / total_candidates, in
\* float arithmetic
FloatAverage(scores) ==
    FloatDivInt(FloatSum([i \in 1..Len(scores) |-> FloatOfHundredths(scores[i])]), Len(scores))

\* mutant of Statistics: the high-confidence count is taken at the minimum threshold
StatisticsCountingRetained(total, filtered_candidates, scores) ==
    [total |-> total,
     filtered |-> Len(filtered_candidates),
     removed |-> total - Len(filtered_candidates),
     avg_confidence |-> FloatAverage(scores),
     min_confidence |-> SeqMin(scores),
     max_confidence |-> SeqMax(scores),
     high_confidence_count |-> Len(KeepAtLeast(filtered_candidates, MinConfidenceThreshold))]

\* filter_by_confidence: the statistics.  avg_confidence is a float; the
\* minimum and the maximum are scores, in hundredths
Statistics(total, filtered_candidates, scores) ==
    [total |-> total,
     filtered |-> Len(filtered_candidates),
     removed |-> total - Len(filtered_candidates),
     avg_confidence |-> FloatAverage(scores),
     min_confidence |-> SeqMin(scores),
     max_confidence |-> SeqMax(scores),
     high_confidence_count |-> Len(KeepAtLeast(filtered_candidates, HighConfidenceThreshold))]

FilterResult(scored_candidates, filtered_candidates) ==
    [scored |-> scored_candidates,
     filtered |-> filtered_candidates,
     stats |-> Statistics(Len(scored_candidates), filtered_candidates,
                          ConfidenceScores(scored_candidates))]

\* filter_by_confidence, after the scoring loop: threshold and sort
RetainedByConfidence(scored_candidates) ==
    SortByScore(KeepAtLeast(scored_candidates, MinConfidenceThreshold))

FilterScored(scored_candidates) ==
    FilterResult(scored_candidates, RetainedByConfidence(scored_candidates))

\* filter_by_confidence: [scored, filtered, stats]
FilterByConfidence(validator, candidates, code_content) ==
    IF candidates = <<>>
    THEN [scored |-> <<>>, filtered |-> <<>>,
          stats |-> [total |-> 0, filtered |-> 0, avg_confidence |-> FixedZero]]
    ELSE FilterScored(ScoreAll(validator, candidates, code_content))

(***************************************************************************)
(* Specification of one ConfidenceAnalyzer call: either                    *)
(* analyze_confidence_with_validation on a candidate and its context, or   *)
(* filter_by_confidence on a list of candidates and a file's content.      *)
(***************************************************************************)
MaxContextFactors == 1
MaxBatch == 2

\* the contexts a text can have: the factors detected in it.  A text matched by
\* the recursive_calls pattern is matched by the function_calls pattern, and one
\* matched by the global_variables pattern holds one of the words that
\* local_variables_only excludes.
SubsetsUpTo(S, n) == {x \in SUBSET S : Cardinality(x) <= n}

ContextInputs ==
    {NoContext} \cup
    UNION {{[has_context |-> TRUE, risk |-> r, boost |-> b] :
                b \in {x \in SubsetsUpTo(DOMAIN BoostFactors, MaxContextFactors - Cardinality(r)) :
                          "global_variables" \in r => "local_variables_only" \notin x}} :
            r \in {x \in SubsetsUpTo(DOMAIN RiskFactors, MaxContextFactors) :
                      "recursive_calls" \in x => "function_calls" \in x}}

CandidateInputs ==
    [candidate_type : {CLit.embarrassingly_parallel, CLit.vectorizable, <<>>},
     reason : {R_none, R_positive, R_negative, R_both},
     function : {FN_main, FN_compute, FN_helper},
     hotspot_priority : BOOLEAN,
     suggested_patch : {SP_empty, SP_comment, SP_valid, SP_invalid, SP_inline},
     line : {1}]

\* the candidates of a batch
BatchCandidateInputs ==
    [candidate_type : {CLit.embarrassingly_parallel, <<>>},
     reason : {R_none},
     function : {FN_main, FN_compute},
     hotspot_priority : {FALSE},
     suggested_patch : {SP_valid, SP_invalid},
     line : 0..2]

\* the file contents of a batch: empty, or two lines with their contexts
CodeContentInputs ==
    {<<>>,
     <<[has_context |-> TRUE, risk |-> {"inline_assembly"}, boost |-> {}],
       [has_context |-> TRUE, risk |-> {}, boost |-> {"regular_memory_pattern", "read_only_data"}]>>}

\* self.openmp_validator after __init__: None, or a validator with its corpus
ValidatorInputs ==
    {NoValidator} \cup
    {[available |-> TRUE, verified_patterns |-> c] :
        c \in {<<>>, <<ExtractPattern(F_loop_path, L_parallel_for)>>}}

InitScorer ==
    /\ openmp_validator \in ValidatorInputs
    /\ \/ sc_in \in [op : {"analyze"}, candidate : CandidateInputs, context : ContextInputs]
       \/ sc_in \in [op : {"filter"},
                     candidates : UNION {[1..n -> BatchCandidateInputs] : n \in 0..MaxBatch},
                     code_content : CodeContentInputs]
    /\ sc_out = NoResult
    /\ IdleValidator /\ IdleCache /\ IdleHotspot /\ IdleDedup /\ IdleUnify /\ IdlePipeline
    /\ IdleBlocks

AnalyzeConfidenceCall ==
    /\ sc_in.op = "analyze"
    /\ sc_out = NoResult
    /\ sc_out' = AnalyzeConfidenceWithValidation(openmp_validator, sc_in.candidate,
                                                 sc_in.context.has_context, sc_in.context)
    /\ UNCHANGED <<openmp_validator, sc_in, validatorVars, cacheVars, hotspotVars, dedupVars, unifyVars,
                       pipelineVars,
                   blockVars>>

FilterByConfidenceCall ==
    /\ sc_in.op = "filter"
    /\ sc_out = NoResult
    /\ sc_out' = [status |-> "filtered"] @@
                 FilterByConfidence(openmp_validator, sc_in.candidates, sc_in.code_content)
    /\ UNCHANGED <<openmp_validator, sc_in, validatorVars, cacheVars, hotspotVars, dedupVars, unifyVars,
                       pipelineVars,
                   blockVars>>

NextScorer == AnalyzeConfidenceCall \/ FilterByConfidenceCall

SpecScorer == InitScorer /\ [][NextScorer]_vars

(***************************************************************************)
(* Specification of one filter_by_confidence call on a batch of candidates *)
(* that lie on no line of the file.                                        *)
(***************************************************************************)
MaxStatBatch == 3

\* the candidates of the batch: they score 0.85, 0.7, 0.5 and 0.95
StatCandidateInputs ==
    [candidate_type : {CLit.vectorizable},
     reason : {R_none},
     function : {FN_helper},
     hotspot_priority : {FALSE},
     suggested_patch : {SP_empty, SP_invalid},
     line : {0}]
    \cup
    [candidate_type : {<<>>, CLit.embarrassingly_parallel},
     reason : {R_none},
     function : {FN_helper},
     hotspot_priority : {FALSE},
     suggested_patch : {SP_empty},
     line : {0}]

InitBatch ==
    /\ openmp_validator = [available |-> TRUE, verified_patterns |-> <<>>]
    /\ sc_in \in [op : {"filter"},
                  candidates : UNION {[1..n -> StatCandidateInputs] : n \in 0..MaxStatBatch},
                  code_content : {<<>>}]
    /\ sc_out = NoResult
    /\ IdleValidator /\ IdleCache /\ IdleHotspot /\ IdleDedup /\ IdleUnify /\ IdlePipeline
    /\ IdleBlocks

NextBatch == FilterByConfidenceCall

SpecBatch == InitBatch /\ [][NextBatch]_vars

(***************************************************************************)
(* PatternCache (pattern_cache.py)                                         *)
(*                                                                         *)
(* A dict is the sequence of its entries in insertion order.  A pattern    *)
(* hash is the CodePattern itself: SHA-256 of its JSON text is taken to be *)
(* free of collisions.  Times are in hours.                                *)
(***************************************************************************)

\* self.similarity_threshold, in hundredths
SimilarityThreshold == 85

\* self.cache_expiry_hours
CacheExpiryHours == 24 * 7

\* _hash_pattern
HashPattern(pattern) == pattern

\* f"{pattern.loop_type}_{pattern.array_access_pattern}": no loop type holds '_'
CategoryKey(pattern) == <<pattern.loop_type, pattern.array_access_pattern>>

\* ai_analysis.get('confidence', 0.0), in hundredths
AnalysisConfidence(ai_analysis) ==
    IF "confidence" \in DOMAIN ai_analysis THEN ai_analysis.confidence ELSE 0

\* pattern_hash in self.memory_cache
HasHash(entries, pattern_hash) ==
    \E i \in 1..Len(entries) : entries[i].pattern_hash = pattern_hash

\* self.memory_cache[pattern_hash]
EntryOf(entries, pattern_hash) ==
    entries[CHOOSE i \in 1..Len(entries) : entries[i].pattern_hash = pattern_hash]

\* self.memory_cache[pattern_hash] = entry: a key already present keeps its place
PutEntry(entries, entry) ==
    IF HasHash(entries, entry.pattern_hash)
    THEN [i \in 1..Len(entries) |->
             IF entries[i].pattern_hash = entry.pattern_hash THEN entry ELSE entries[i]]
    ELSE Append(entries, entry)

\* cached.usage_count += 1
CountUse(entries, pattern_hash) ==
    [i \in 1..Len(entries) |->
        IF entries[i].pattern_hash = pattern_hash
        THEN [entries[i] EXCEPT !.usage_count = @ + 1]
        ELSE entries[i]]

\* mutant of IsCacheValid: an entry is still valid at the expiry age
IsCacheValidAtExpiry(cached_analysis, t) == t - cached_analysis.timestamp <= CacheExpiryHours

\* _is_cache_valid at time t
IsCacheValid(cached_analysis, t) == t - cached_analysis.timestamp < CacheExpiryHours

\* _calculate_pattern_similarity, in hundredths
CalculatePatternSimilarityAboveThreshold(entries, pattern1, pattern2_hash) ==
    IF ~HasHash(entries, pattern2_hash) THEN 0
    ELSE IF pattern1.loop_type = "for" /\ EntryOf(entries, pattern2_hash).confidence > 70 THEN 90
    ELSE IF pattern1.loop_type = "while" /\ EntryOf(entries, pattern2_hash).confidence > 60 THEN 75
    ELSE 60

CalculatePatternSimilarity(entries, pattern1, pattern2_hash) ==
    IF ~HasHash(entries, pattern2_hash) THEN 0
    ELSE IF pattern1.loop_type = "for" /\ EntryOf(entries, pattern2_hash).confidence > 70 THEN 80
    ELSE IF pattern1.loop_type = "while" /\ EntryOf(entries, pattern2_hash).confidence > 60 THEN 75
    ELSE 60

NoAnalysis == [hit |-> FALSE]
Hit(analysis) == [hit |-> TRUE, analysis |-> analysis]

\* _find_similar_pattern: one iteration of the loop over candidate_hashes;
\* best is [entries, best_similarity, best_analysis]
SimilarCandidate(best, target_pattern, cached_hash, similarity, t) ==
    IF ~HasHash(best.entries, cached_hash) THEN best
    ELSE IF ~IsCacheValid(EntryOf(best.entries, cached_hash), t) THEN best
    ELSE IF similarity >= SimilarityThreshold /\ similarity > best.best_similarity
    THEN [entries |-> CountUse(best.entries, cached_hash),
          best_similarity |-> similarity,
          best_analysis |-> Hit(EntryOf(best.entries, cached_hash).analysis)]
    ELSE best

\* the similarity computed in the entries as they are at that iteration
SimilarCandidateIn(best, target_pattern, cached_hash, t) ==
    SimilarCandidate(best, target_pattern, cached_hash,
                     CalculatePatternSimilarity(best.entries, target_pattern, cached_hash), t)

\* _find_similar_pattern: the loop over candidate_hashes[1..n]
RECURSIVE SimilarCandidates(_, _, _, _, _)
SimilarCandidates(entries, target_pattern, candidate_hashes, n, t) ==
    IF n = 0
    THEN [entries |-> entries, best_similarity |-> 0, best_analysis |-> NoAnalysis]
    ELSE SimilarCandidateIn(SimilarCandidates(entries, target_pattern, candidate_hashes, n - 1, t),
                            target_pattern, candidate_hashes[n], t)

\* _find_similar_pattern: [entries, best_similarity, best_analysis]
CacheFindSimilarPattern(entries, index, target_pattern, t) ==
    SimilarCandidates(entries, target_pattern, index[CategoryKey(target_pattern)],
                      Len(index[CategoryKey(target_pattern)]), t)

\* get_cached_analysis, the similar-pattern branch: "if similar_analysis:"
SimilarLookup(similar) ==
    [entries |-> similar.entries,
     result |-> IF similar.best_analysis.hit /\ DOMAIN similar.best_analysis.analysis # {}
                THEN similar.best_analysis ELSE NoAnalysis]

\* get_cached_analysis at time t: [entries, result]
GetCachedAnalysis(entries, index, pattern, t) ==
    IF /\ HasHash(entries, HashPattern(pattern))
       /\ IsCacheValid(EntryOf(entries, HashPattern(pattern)), t)
    THEN [entries |-> CountUse(entries, HashPattern(pattern)),
          result |-> Hit(EntryOf(entries, HashPattern(pattern)).analysis)]
    ELSE SimilarLookup(CacheFindSimilarPattern(entries, index, pattern, t))

\* CachedAnalysis(...) as cache_analysis builds it at time t
NewCachedAnalysis(pattern_hash, ai_analysis, t) ==
    [pattern_hash |-> pattern_hash, analysis |-> ai_analysis, timestamp |-> t,
     usage_count |-> 1, confidence |-> AnalysisConfidence(ai_analysis)]

\* _update_pattern_index
UpdatePatternIndex(index, pattern, pattern_hash) ==
    IF \E i \in 1..Len(index[CategoryKey(pattern)]) :
            index[CategoryKey(pattern)][i] = pattern_hash
    THEN index
    ELSE [index EXCEPT ![CategoryKey(pattern)] = Append(@, pattern_hash)]

\* mutant of KeyGreater: the entries are ordered by their age alone
KeyGreaterByAge(a, b) == a.timestamp > b.timestamp

\* the sort key (usage_count, timestamp): a's key is greater than b's
KeyGreater(a, b) ==
    \/ a.usage_count > b.usage_count
    \/ a.usage_count = b.usage_count /\ a.timestamp > b.timestamp

\* sorted(..., key=(usage_count, timestamp)) is stable: x goes before the first
\* entry of greater key
RECURSIVE InsertByUsage(_, _)
InsertByUsage(sorted, x) ==
    IF sorted = <<>> THEN <<x>>
    ELSE IF KeyGreater(Head(sorted), x) THEN <<x>> \o sorted
    ELSE <<Head(sorted)>> \o InsertByUsage(Tail(sorted), x)

RECURSIVE SortByUsage(_)
SortByUsage(entries) ==
    IF entries = <<>> THEN <<>>
    ELSE InsertByUsage(SortByUsage(SubSeq(entries, 1, Len(entries) - 1)), entries[Len(entries)])

\* del self.memory_cache[pattern_hash], for each hash of the set
RECURSIVE DeleteEntries(_, _)
DeleteEntries(entries, hashes) ==
    IF entries = <<>> THEN <<>>
    ELSE IF Head(entries).pattern_hash \in hashes THEN DeleteEntries(Tail(entries), hashes)
    ELSE <<Head(entries)>> \o DeleteEntries(Tail(entries), hashes)

\* _cleanup_cache: sorted_entries[:entries_to_remove] are deleted
RemoveFirst(entries, sorted_entries, entries_to_remove) ==
    DeleteEntries(entries, {sorted_entries[i].pattern_hash : i \in 1..entries_to_remove})

\* _cleanup_cache
CleanupCache(entries, max_size) ==
    IF Len(entries) <= max_size THEN entries
    ELSE RemoveFirst(entries, SortByUsage(entries), Len(entries) - max_size)

\* cache_analysis, from the entry it builds: [memory_cache, pattern_index, cache_file]
StoreEntry(entries, index, file, max_size, pattern, cached_analysis) ==
    [memory_cache |-> CleanupCache(PutEntry(entries, cached_analysis), max_size),
     pattern_index |-> UpdatePatternIndex(index, pattern, cached_analysis.pattern_hash),
     cache_file |-> PutEntry(file, cached_analysis)]

\* cache_analysis at time t
CacheAnalysis(entries, index, file, max_size, pattern, ai_analysis, t) ==
    StoreEntry(entries, index, file, max_size, pattern,
               NewCachedAnalysis(HashPattern(pattern), ai_analysis, t))

\* CachedAnalysis(**entry_data): the keys are those of the dataclass fields, or
\* the constructor raises TypeError
Constructs(entry_data) ==
    DOMAIN entry_data = {"analysis", "timestamp", "usage_count", "pattern_hash", "confidence"}

\* _load_cache at time t, the loop over the entries of the file in its order:
\* the valid entries are loaded.  The try encloses the loop, so the exception
\* of an entry that does not construct ends the loop.
RECURSIVE LoadCache(_, _)
LoadCache(file, t) ==
    IF file = <<>> THEN <<>>
    ELSE IF ~Constructs(Head(file)) THEN <<>>
    ELSE IF IsCacheValid(Head(file), t) THEN <<Head(file)>> \o LoadCache(Tail(file), t)
    ELSE LoadCache(Tail(file), t)

\* _load_cache at time t: a file that is missing, or is not JSON, loads nothing
LoadCacheFile(file_state, file, t) ==
    IF file_state = "parses" THEN LoadCache(file, t) ELSE <<>>

(***************************************************************************)
(* Specification of a PatternCache over its life: analyses are stored and  *)
(* looked up, time passes, and the process restarts on the same cache      *)
(* directory.                                                              *)
(***************************************************************************)
MaxCacheSize == 2
MaxUsageCount == 2
MaxTicks == 1

\* the CodePatterns of the snippets analysed: two of one category that differ in
\* the variable count alone, and one of another category
ForSimplePattern(variable_count) ==
    [loop_type |-> "for", array_access_pattern |-> "simple",
     operation_types |-> <<"arithmetic", "assignment", "comparison">>,
     variable_count |-> variable_count, has_function_calls |-> TRUE,
     has_control_flow |-> FALSE, memory_pattern |-> "sequential"]

CachePatterns ==
    {ForSimplePattern(4),
     ForSimplePattern(5),
     [loop_type |-> "while", array_access_pattern |-> "none",
      operation_types |-> <<"arithmetic", "comparison">>,
      variable_count |-> 2, has_function_calls |-> TRUE,
      has_control_flow |-> FALSE, memory_pattern |-> "unknown"]}

\* the AI analyses stored: with a confidence, and without one
CacheAnalyses ==
    {[classification |-> "safe_parallel", confidence |-> 90],
     [classification |-> "not_parallel"]}

EmptyIndex == [k \in {CategoryKey(p) : p \in CachePatterns} |-> <<>>]

\* PatternCache(cache_dir, max_cache_size) on an empty cache directory
InitCache ==
    /\ memory_cache = <<>>
    /\ pattern_index = EmptyIndex
    /\ cache_file = <<>>
    /\ max_cache_size \in 1..MaxCacheSize
    /\ now = 0
    /\ cache_call = NoInput
    /\ IdleValidator /\ IdleScorer /\ IdleHotspot /\ IdleDedup /\ IdleUnify /\ IdlePipeline
    /\ IdleBlocks

\* the state cache_analysis leaves; evicted: the number of entries its cleanup
\* removed
Stored(after, pattern, ai_analysis) ==
    /\ memory_cache' = after.memory_cache
    /\ pattern_index' = after.pattern_index
    /\ cache_file' = after.cache_file
    /\ cache_call' = [op |-> "store", pattern |-> pattern, analysis |-> ai_analysis,
                      evicted |-> Len(memory_cache) - Len(after.memory_cache)
                                  + (IF HasHash(memory_cache, HashPattern(pattern))
                                     THEN 0 ELSE 1)]

\* cache_analysis(code_snippet, candidate_info, ai_analysis)
Store ==
    \E pattern \in CachePatterns, ai_analysis \in CacheAnalyses :
        /\ Stored(CacheAnalysis(memory_cache, pattern_index, cache_file, max_cache_size,
                                pattern, ai_analysis, now),
                  pattern, ai_analysis)
        /\ UNCHANGED <<max_cache_size, now, validatorVars, scorerVars, hotspotVars,
                       dedupVars, unifyVars, pipelineVars,
                   blockVars>>

\* the state get_cached_analysis leaves; round_trip: the call before was
\* cache_analysis on the same snippet and candidate
LookedUp(after, pattern) ==
    /\ \A i \in 1..Len(after.entries) : after.entries[i].usage_count <= MaxUsageCount
    /\ memory_cache' = after.entries
    /\ cache_call' = [op |-> "lookup", pattern |-> pattern, result |-> after.result,
                      round_trip |-> (cache_call.op = "store" /\ cache_call.pattern = pattern),
                      stored |-> IF cache_call.op = "store" THEN cache_call.analysis
                                 ELSE NoAnalysis]

\* get_cached_analysis(code_snippet, candidate_info)
Lookup ==
    \E pattern \in CachePatterns :
        /\ LookedUp(GetCachedAnalysis(memory_cache, pattern_index, pattern, now), pattern)
        /\ UNCHANGED <<pattern_index, cache_file, max_cache_size, now, validatorVars,
                       scorerVars, hotspotVars, dedupVars, unifyVars, pipelineVars,
                   blockVars>>

\* the expiry time passes
Tick ==
    /\ now + CacheExpiryHours <= MaxTicks * CacheExpiryHours
    /\ now' = now + CacheExpiryHours
    /\ cache_call' = [op |-> "tick"]
    /\ UNCHANGED <<memory_cache, pattern_index, cache_file, max_cache_size, validatorVars,
                   scorerVars, hotspotVars, dedupVars, unifyVars, pipelineVars,
                   blockVars>>

\* the process ends and PatternCache(cache_dir, max_cache_size) is constructed again
Restart ==
    /\ cache_call.op # "restart"
    /\ memory_cache' = LoadCache(cache_file, now)
    /\ pattern_index' = EmptyIndex
    /\ cache_call' = [op |-> "restart"]
    /\ UNCHANGED <<cache_file, max_cache_size, now, validatorVars, scorerVars, hotspotVars,
                   dedupVars, unifyVars, pipelineVars,
                   blockVars>>

NextCache == Store \/ Lookup \/ Tick \/ Restart

SpecCache == InitCache /\ [][NextCache]_vars

(***************************************************************************)
(* Specification of the construction of a PatternCache on a cache          *)
(* directory whose file was left by earlier processes, or damaged since.   *)
(***************************************************************************)
MaxFileEntries == 3

\* an entry of the file with a key missing
MalformedEntry(pattern_hash) == [pattern_hash |-> pattern_hash, usage_count |-> 1]

\* the entries a file can hold for a hash, at time CacheExpiryHours: stored
\* just now, stored an expiry time ago, and malformed
FileEntries(pattern_hash) ==
    {NewCachedAnalysis(pattern_hash, [classification |-> "safe_parallel", confidence |-> 90],
                       CacheExpiryHours),
     NewCachedAnalysis(pattern_hash, [classification |-> "safe_parallel", confidence |-> 90], 0),
     MalformedEntry(pattern_hash)}

\* the files: a JSON object has one entry for a key
LoadFiles ==
    UNION {{file \in [1..n -> UNION {FileEntries(HashPattern(p)) : p \in CachePatterns}] :
               \A i, j \in 1..n : i # j => file[i].pattern_hash # file[j].pattern_hash} :
            n \in 0..MaxFileEntries}

InitLoad ==
    /\ \/ cache_call = [op |-> "construct", file_state |-> "parses"] /\ cache_file \in LoadFiles
       \/ /\ cache_call \in [op : {"construct"}, file_state : {"missing", "unparseable"}]
          /\ cache_file = <<>>
    /\ memory_cache = <<>>
    /\ pattern_index = EmptyIndex
    /\ max_cache_size = MaxCacheSize
    /\ now = CacheExpiryHours
    /\ IdleValidator /\ IdleScorer /\ IdleHotspot /\ IdleDedup /\ IdleUnify /\ IdlePipeline
    /\ IdleBlocks

\* PatternCache(cache_dir, max_cache_size): __init__ runs _load_cache
Construct ==
    /\ cache_call.op = "construct"
    /\ memory_cache' = LoadCacheFile(cache_call.file_state, cache_file, now)
    /\ cache_call' = [cache_call EXCEPT !.op = "constructed"]
    /\ UNCHANGED <<pattern_index, cache_file, max_cache_size, now, validatorVars, scorerVars,
                   hotspotVars, dedupVars, unifyVars, pipelineVars,
                   blockVars>>

NextLoad == Construct

SpecLoad == InitLoad /\ [][NextLoad]_vars

(***************************************************************************)
(* HotspotAnalyzer.filter_candidates_by_hotspots (hotspot_analyzer.py)     *)
(*                                                                         *)
(* A candidate is a record; a key it lacks is a field it lacks.  Its id is *)
(* the identity of the dict object: its position in the input list.        *)
(***************************************************************************)

\* candidate.get('line', 0)
CandidateLine(candidate) == IF "line" \in DOMAIN candidate THEN candidate.line ELSE 0

\* start_line <= candidate_line <= end_line
InHotspot(hotspot, candidate_line) ==
    hotspot.start_line <= candidate_line /\ candidate_line <= hotspot.end_line

\* next(h for h in hotspots if h.start_line <= candidate_line <= h.end_line)
MatchingHotspot(hotspots, candidate_line) ==
    hotspots[CHOOSE i \in 1..Len(hotspots) :
                /\ InHotspot(hotspots[i], candidate_line)
                /\ \A j \in 1..(i - 1) : ~InHotspot(hotspots[j], candidate_line)]

\* candidate['hotspot_score'] = ...; candidate['hotspot_priority'] = True
MarkHotspot(candidate, hotspot) ==
    [k \in DOMAIN candidate \cup {"hotspot_score", "hotspot_priority"} |->
        IF k = "hotspot_score" THEN hotspot.impact_score
        ELSE IF k = "hotspot_priority" THEN TRUE
        ELSE candidate[k]]

\* mutant of HotspotMatches: the loop over the ranges goes on after a match
HotspotMatchesNoBreak(candidate, hotspots) ==
    [i \in 1..Cardinality({j \in 1..Len(hotspots) : InHotspot(hotspots[j], CandidateLine(candidate))})
        |-> MarkHotspot(candidate, MatchingHotspot(hotspots, CandidateLine(candidate)))]

\* the loop over hotspot_ranges for one candidate: what it appends to
\* filtered_candidates
HotspotMatches(candidate, hotspots) ==
    IF \E i \in 1..Len(hotspots) : InHotspot(hotspots[i], CandidateLine(candidate))
    THEN <<MarkHotspot(candidate, MatchingHotspot(hotspots, CandidateLine(candidate)))>>
    ELSE <<>>

\* the loop over candidates[1..n]
RECURSIVE FilteredCandidates(_, _, _)
FilteredCandidates(candidates, hotspots, n) ==
    IF n = 0 THEN <<>>
    ELSE FilteredCandidates(candidates, hotspots, n - 1) \o HotspotMatches(candidates[n], hotspots)

\* sorted(candidates, key=line): stable, ascending
RECURSIVE InsertByLine(_, _)
InsertByLine(sorted, x) ==
    IF sorted = <<>> THEN <<x>>
    ELSE IF CandidateLine(Head(sorted)) > CandidateLine(x) THEN <<x>> \o sorted
    ELSE <<Head(sorted)>> \o InsertByLine(Tail(sorted), x)

RECURSIVE SortByLine(_)
SortByLine(s) ==
    IF s = <<>> THEN <<>>
    ELSE InsertByLine(SortByLine(SubSeq(s, 1, Len(s) - 1)), s[Len(s)])

\* x.get('hotspot_score', 0)
HotspotScore(candidate) ==
    IF "hotspot_score" \in DOMAIN candidate THEN candidate.hotspot_score ELSE 0

\* filtered_candidates.sort(key=hotspot_score, reverse=True): stable, descending
RECURSIVE InsertByHotspotScore(_, _)
InsertByHotspotScore(sorted, x) ==
    IF sorted = <<>> THEN <<x>>
    ELSE IF HotspotScore(Head(sorted)) < HotspotScore(x) THEN <<x>> \o sorted
    ELSE <<Head(sorted)>> \o InsertByHotspotScore(Tail(sorted), x)

RECURSIVE SortByHotspotScore(_)
SortByHotspotScore(s) ==
    IF s = <<>> THEN <<>>
    ELSE InsertByHotspotScore(SortByHotspotScore(SubSeq(s, 1, Len(s) - 1)), s[Len(s)])

\* s[:n]
Take(s, n) == SubSeq(s, 1, IF Len(s) < n THEN Len(s) ELSE n)

\* filter_candidates_by_hotspots, after the loop over the candidates
FilteredOrFallback(candidates, filtered_candidates) ==
    IF filtered_candidates = <<>>
    THEN Take(SortByLine(candidates), 5)
    ELSE SortByHotspotScore(filtered_candidates)

\* filter_candidates_by_hotspots
FilterCandidatesByHotspots(candidates, hotspots) ==
    IF hotspots = <<>> THEN candidates
    ELSE FilteredOrFallback(candidates, FilteredCandidates(candidates, hotspots, Len(candidates)))

(***************************************************************************)
(* Specification of one filter_candidates_by_hotspots call.                *)
(***************************************************************************)
MaxHotspots == 2
MaxHotspotCandidates == 6

\* self.min_impact_threshold
MinImpactThreshold == 50

\* the loops analyze_hotspots can report: a loop ends after the line it starts
\* on, and its score is at least the threshold
HotspotInputs ==
    [start_line : {1}, end_line : {3}, impact_score : {MinImpactThreshold, 80}] \cup
    [start_line : {2}, end_line : {6}, impact_score : {MinImpactThreshold, 80}]

\* analyze_hotspots returns its hotspots sorted by falling impact score
HotspotLists ==
    {hs \in UNION {[1..n -> HotspotInputs] : n \in 0..MaxHotspots} :
        \A i \in 1..(Len(hs) - 1) : hs[i].impact_score >= hs[i + 1].impact_score}

\* the candidate at position id of the list: with a line, or (line 0) without one
HotspotCandidate(id, line) == IF line = 0 THEN [id |-> id] ELSE [id |-> id, line |-> line]

HotspotCandidateLists ==
    UNION {{[i \in 1..n |-> HotspotCandidate(i, lines[i])] : lines \in [1..n -> {0, 2, 5}]} :
            n \in 0..MaxHotspotCandidates}

InitHotspot ==
    /\ hs_in \in [candidates : HotspotCandidateLists, hotspots : HotspotLists]
    /\ hs_out = NoResult
    /\ IdleValidator /\ IdleScorer /\ IdleCache /\ IdleDedup /\ IdleUnify /\ IdlePipeline
    /\ IdleBlocks

FilterByHotspots ==
    /\ hs_out = NoResult
    /\ hs_out' = [status |-> "returned",
                  candidates |-> FilterCandidatesByHotspots(hs_in.candidates, hs_in.hotspots)]
    /\ UNCHANGED <<hs_in, validatorVars, scorerVars, cacheVars, dedupVars, unifyVars,
                       pipelineVars,
                   blockVars>>

NextHotspot == FilterByHotspots

SpecHotspot == InitHotspot /\ [][NextHotspot]_vars

(***************************************************************************)
(* HybridAnalyzer._deduplicate_candidates (hybrid_analyzer.py) and phase 2 *)
(* of GroqClient.filter_and_deduplicate_candidates (groq_client.py): the   *)
(* same loop.  A candidate's id is the identity of the dict object.        *)
(***************************************************************************)

Digits == <<"0", "1", "2", "3", "4", "5", "6", "7", "8", "9">>

\* str(n) of a natural number
RECURSIVE IntToStr(_)
IntToStr(n) ==
    IF n < 10 THEN <<Digits[n + 1]>>
    ELSE IntToStr(n \div 10) \o <<Digits[(n % 10) + 1]>>

\* result.get('file', ''), result.get('line', 0), result.get('function', 'unknown')
ResultFile(result) == IF "file" \in DOMAIN result THEN result.file ELSE <<>>
ResultLine(result) == IF "line" \in DOMAIN result THEN result.line ELSE 0
ResultFunction(result) ==
    IF "function" \in DOMAIN result THEN result.function ELSE CLit.unknown

\* mutant of Signature: the three parts are joined without the ':' between them
SignatureUnseparated(result) ==
    ResultFile(result) \o IntToStr(ResultLine(result)) \o ResultFunction(result)

\* f"{file}:{line}:{function}"
Signature(result) ==
    ResultFile(result) \o <<":">> \o IntToStr(ResultLine(result)) \o <<":">>
        \o ResultFunction(result)

\* one iteration of the deduplication loop; seen is [deduplicated, seen_signatures]
SeeSignature(seen, result, signature) ==
    IF signature \notin seen.seen_signatures
    THEN [deduplicated |-> Append(seen.deduplicated, result),
          seen_signatures |-> seen.seen_signatures \cup {signature}]
    ELSE seen

\* the deduplication loop over results[1..n]
RECURSIVE DeduplicateUpTo(_, _)
DeduplicateUpTo(results, n) ==
    IF n = 0 THEN [deduplicated |-> <<>>, seen_signatures |-> {}]
    ELSE SeeSignature(DeduplicateUpTo(results, n - 1), results[n], Signature(results[n]))

\* _deduplicate_candidates
DeduplicateCandidates(results) ==
    IF results = <<>> THEN <<>>
    ELSE DeduplicateUpTo(results, Len(results)).deduplicated

(***************************************************************************)
(* Specification of one deduplication call.                                *)
(***************************************************************************)
MaxDedupCandidates == 5

\* the candidates of a result list, but for their id: two of the same file and
\* line that differ in the function, one without a function, one without a
\* line, and one whose file name ends with a digit
DedupSamples ==
    <<[file |-> D_file_a, line |-> 12, function |-> D_fn_f],
      [file |-> D_file_a, line |-> 12, function |-> D_fn_qualified],
      [file |-> D_file_a, line |-> 12],
      [file |-> D_file_a, function |-> D_fn_f],
      [file |-> D_file_a1, line |-> 2, function |-> D_fn_f]>>

\* the sample with the id of the position it takes in the list
WithId(sample, id) ==
    [k \in DOMAIN sample \cup {"id"} |-> IF k = "id" THEN id ELSE sample[k]]

DedupLists(max_len) ==
    UNION {{[i \in 1..n |-> WithId(DedupSamples[pick[i]], i)] :
                pick \in [1..n -> 1..Len(DedupSamples)]} : n \in 0..max_len}

InitDedup ==
    /\ dd_in \in [results : DedupLists(MaxDedupCandidates)]
    /\ dd_out = NoResult
    /\ IdleValidator /\ IdleScorer /\ IdleCache /\ IdleHotspot /\ IdleUnify /\ IdlePipeline
    /\ IdleBlocks

Deduplicate ==
    /\ dd_out = NoResult
    /\ dd_out' = [status |-> "returned", results |-> DeduplicateCandidates(dd_in.results)]
    /\ UNCHANGED <<dd_in, validatorVars, scorerVars, cacheVars, hotspotVars, unifyVars,
                       pipelineVars,
                   blockVars>>

NextDedup == Deduplicate

SpecDedup == InitDedup /\ [][NextDedup]_vars

(***************************************************************************)
(* CodeBlockAnalyzer (code_block_analyzer.py) and the block unification of *)
(* HybridAnalyzer (hybrid_analyzer.py).                                    *)
(*                                                                         *)
(* The text of a block is given by what the regular expressions and        *)
(* substring tests of the two analyzers find in it:                        *)
(*   nesting_level   what _calculate_nesting_level counts                  *)
(*   offset_index    "digit" if it holds an index like a[i+1] or a[i-1],   *)
(*                   "word" if it holds only one like a[i+k], else "none"  *)
(*   call_matches    the number of matches of \w+\s*\(.*\); a loop header  *)
(*                   is one                                                *)
(*   arithmetic      one of * + - / occurs                                 *)
(*   vector_word     'vector' occurs                                       *)
(*   reduction_word  one of sum, total, count, accumulate occurs           *)
(*   reduction_form  one of the patterns of _check_reduction_patterns      *)
(*                   matches                                               *)
(***************************************************************************)

\* _determine_loop_block_type
DetermineLoopBlockType(code, nesting_level) ==
    IF nesting_level >= 2 THEN "nested_loops"
    ELSE IF code.vector_word \/ code.arithmetic THEN "vectorizable_loop"
    ELSE IF code.reduction_word THEN "reduction_loop"
    ELSE "simple_loop"

\* _check_data_dependencies: r'\w+\[\s*\w+\s*[+-]\s*\d+\s*\]' matches, or more
\* than two matches of r'\w+\s*\(.*\)'
CheckDataDependencies(code) == code.offset_index = "digit" \/ code.call_matches > 2

\* _check_reduction_patterns
CheckReductionPatterns(code) == code.reduction_form

\* mutant of LoopParallelizationPotential: the dependencies of a nested loop
\* are not looked at
LoopParallelizationPotentialIgnoringDependencies(block_type, has_dependencies, has_reduction) ==
    IF block_type = "nested_loops" THEN "good"
    ELSE IF block_type = "vectorizable_loop" THEN "excellent"
    ELSE IF has_reduction THEN "good"
    ELSE "moderate"

\* _analyze_loop_parallelization: block.parallelization_potential
LoopParallelizationPotential(block_type, has_dependencies, has_reduction) ==
    IF block_type = "nested_loops"
    THEN IF has_dependencies THEN "limited" ELSE "good"
    ELSE IF block_type = "vectorizable_loop" THEN "excellent"
    ELSE IF has_reduction THEN "good"
    ELSE "moderate"

\* _analyze_loop_parallelization
AnalyzeLoopParallelization(block) ==
    [block EXCEPT !.parallelization_potential =
        LoopParallelizationPotential(block.block_type,
                                     CheckDataDependencies(block.code_content),
                                     CheckReductionPatterns(block.code_content))]

\* CodeBlock(...)
CodeBlock(block_type, start_line, end_line, code_content, nesting_level) ==
    [block_type |-> block_type, start_line |-> start_line, end_line |-> end_line,
     code_content |-> code_content, nesting_level |-> nesting_level,
     parallelization_potential |-> "<None>"]

\* _parse_loop_block, for a loop whose braces match: the CodeBlock it returns
ParseLoopBlock(start_line, end_line, code) ==
    AnalyzeLoopParallelization(
        CodeBlock(DetermineLoopBlockType(code, code.nesting_level), start_line, end_line,
                  code, code.nesting_level))

\* _analyze_block_safety: has_dependencies, the one entry that is read;
\* r'\w+\[\s*\w+\s*[+-]\s*\w+\s*\]' matches a digit offset too
AnalyzeBlockSafety(block) ==
    [has_dependencies |->
        \/ block.code_content.offset_index \in {"word", "digit"}
        \/ block.code_content.call_matches > 2]

\* result.get('line', 0)
UnifyLine(result) == IF "line" \in DOMAIN result THEN result.line ELSE 0

\* _find_matching_code_block: one iteration of the loop; best is
\* [best_match (index into code_blocks, 0 for None), smallest_range (-1 for inf)]
SmallerBlock(best, code_blocks, n, result_line) ==
    IF /\ code_blocks[n].start_line <= result_line
       /\ result_line <= code_blocks[n].end_line
       /\ \/ best.best_match = 0
          \/ code_blocks[n].end_line - code_blocks[n].start_line < best.smallest_range
    THEN [best_match |-> n,
          smallest_range |-> code_blocks[n].end_line - code_blocks[n].start_line]
    ELSE best

\* _find_matching_code_block: the loop over code_blocks[1..n]
RECURSIVE SmallestBlock(_, _, _)
SmallestBlock(code_blocks, n, result_line) ==
    IF n = 0 THEN [best_match |-> 0, smallest_range |-> -1]
    ELSE SmallerBlock(SmallestBlock(code_blocks, n - 1, result_line), code_blocks, n, result_line)

\* mutant of FindMatchingCodeBlock: a result that no block encloses is given
\* the first block
FindMatchingCodeBlockOrFirst(result, code_blocks) ==
    IF code_blocks = <<>> THEN 0
    ELSE IF UnifyLine(result) = 0 THEN 1
    ELSE Max(1, SmallestBlock(code_blocks, Len(code_blocks), UnifyLine(result)).best_match)

\* _find_matching_code_block: the index of the block, 0 for None
FindMatchingCodeBlock(result, code_blocks) ==
    IF UnifyLine(result) = 0 \/ code_blocks = <<>> THEN 0
    ELSE SmallestBlock(code_blocks, Len(code_blocks), UnifyLine(result)).best_match

\* r.get('ai_analysis', {}).get('classification', '')
Classification(result) ==
    IF "ai_analysis" \in DOMAIN result THEN result.ai_analysis.classification ELSE ""

\* r.get('candidate_type', '')
CandidateType(result) ==
    IF "candidate_type" \in DOMAIN result THEN result.candidate_type ELSE ""

\* _determine_unified_block_analysis: the classification and confidence chosen
UnifiedClassification(block, classifications, candidate_types, block_safety) ==
    IF block.block_type = "nested_loops"
    THEN IF block.parallelization_potential = "limited"
         THEN [classification |-> "requires_runtime_check", confidence |-> 60]
         ELSE [classification |-> "safe_parallel", confidence |-> 80]
    ELSE IF block.block_type = "vectorizable_loop"
    THEN [classification |-> "safe_parallel", confidence |-> 90]
    ELSE IF "vectorizable" \in candidate_types
    THEN [classification |-> "safe_parallel", confidence |-> 80]
    ELSE IF "not_parallel" \in classifications \/ block_safety.has_dependencies
    THEN [classification |-> "not_parallel", confidence |-> 40]
    ELSE [classification |-> "requires_runtime_check", confidence |-> 60]

\* the 'ai_analysis' dict of a unified analysis
UnifiedAnalysis(unified) ==
    [classification |-> unified.classification, confidence |-> unified.confidence,
     block_unified |-> TRUE]

\* _determine_unified_block_analysis, for a group that is not empty
DetermineUnifiedBlockAnalysis(block_results, block) ==
    UnifiedAnalysis(
        UnifiedClassification(block,
                              {Classification(block_results[i]) : i \in 1..Len(block_results)},
                              {CandidateType(block_results[i]) : i \in 1..Len(block_results)},
                              AnalyzeBlockSafety(block)))

\* f"{matching_block.start_line}-{matching_block.end_line}": line numbers are
\* natural numbers, so the text determines the pair
BlockKey(block) == <<block.start_line, block.end_line>>

\* mutant of ApplyUnified: a result that has an AI analysis keeps it
ApplyUnifiedKeepingOwn(result, ai_analysis, block) ==
    [k \in DOMAIN result \cup {"ai_analysis", "code_block"} |->
        IF k = "ai_analysis"
        THEN IF "ai_analysis" \in DOMAIN result THEN result.ai_analysis ELSE ai_analysis
        ELSE IF k = "code_block"
             THEN [type |-> block.block_type, start_line |-> block.start_line,
                   end_line |-> block.end_line, nesting_level |-> block.nesting_level,
                   parallelization_potential |-> block.parallelization_potential]
        ELSE result[k]]

\* result['ai_analysis'] = ...; result["code_block"] = {...}
ApplyUnified(result, ai_analysis, block) ==
    [k \in DOMAIN result \cup {"ai_analysis", "code_block"} |->
        IF k = "ai_analysis" THEN ai_analysis
        ELSE IF k = "code_block"
             THEN [type |-> block.block_type, start_line |-> block.start_line,
                   end_line |-> block.end_line, nesting_level |-> block.nesting_level,
                   parallelization_potential |-> block.parallelization_potential]
        ELSE result[k]]

ApplyUnifiedToAll(block_results, ai_analysis, block) ==
    [i \in 1..Len(block_results) |-> ApplyUnified(block_results[i], ai_analysis, block)]

\* the first loop of _unify_block_analysis, one iteration: groups is
\* [block_groups (in insertion order), ungrouped_results]
GroupResult(groups, result, code_blocks, matching_block) ==
    IF matching_block = 0
    THEN [groups EXCEPT !.ungrouped_results = Append(@, result)]
    ELSE IF \E g \in 1..Len(groups.block_groups) :
                groups.block_groups[g].block_key = BlockKey(code_blocks[matching_block])
    THEN [groups EXCEPT !.block_groups =
             [g \in 1..Len(@) |->
                 IF @[g].block_key = BlockKey(code_blocks[matching_block])
                 THEN [@[g] EXCEPT !.results = Append(@, result)]
                 ELSE @[g]]]
    ELSE [groups EXCEPT !.block_groups =
             Append(@, [block_key |-> BlockKey(code_blocks[matching_block]),
                        block |-> code_blocks[matching_block],
                        results |-> <<result>>])]

\* the first loop of _unify_block_analysis over results[1..n]
RECURSIVE GroupResults(_, _, _)
GroupResults(results, code_blocks, n) ==
    IF n = 0 THEN [block_groups |-> <<>>, ungrouped_results |-> <<>>]
    ELSE GroupResult(GroupResults(results, code_blocks, n - 1), results[n], code_blocks,
                     FindMatchingCodeBlock(results[n], code_blocks))

\* the second loop of _unify_block_analysis, one iteration
UnifyGroup(group) ==
    ApplyUnifiedToAll(group.results, DetermineUnifiedBlockAnalysis(group.results, group.block),
                      group.block)

\* the second loop of _unify_block_analysis over block_groups[1..n]
RECURSIVE UnifyGroups(_, _)
UnifyGroups(block_groups, n) ==
    IF n = 0 THEN <<>>
    ELSE UnifyGroups(block_groups, n - 1) \o UnifyGroup(block_groups[n])

\* mutant of UnifiedResults: the results of no block are not added
UnifiedResultsOfBlocks(groups) ==
    UnifyGroups(groups.block_groups, Len(groups.block_groups))

\* _unify_block_analysis, after the grouping
UnifiedResults(groups) ==
    UnifyGroups(groups.block_groups, Len(groups.block_groups)) \o groups.ungrouped_results

\* _unify_block_analysis
UnifyBlockAnalysis(results, code_blocks) ==
    IF code_blocks = <<>> THEN results
    ELSE UnifiedResults(GroupResults(results, code_blocks, Len(results)))

(***************************************************************************)
(* Specification of one _unify_block_analysis call on a list of code       *)
(* blocks.  _identify_loop_blocks yields disjoint blocks;                  *)
(* _find_matching_code_block searches for the smallest enclosing one, so   *)
(* the lists here hold nested layouts as well.                             *)
(***************************************************************************)
MaxUnifyResults == 2

\* the texts of the loops: a nested loop with an index a[i-1], one with an
\* index a[i+k], one that calls three functions, one without any of these; a
\* single loop with arithmetic; a single loop that calls count(); a single
\* loop that calls three functions; a single loop with an index a[i+1]
BlockTexts ==
    {[nesting_level |-> 2, offset_index |-> "digit", call_matches |-> 2, arithmetic |-> TRUE,
      vector_word |-> FALSE, reduction_word |-> FALSE, reduction_form |-> FALSE],
     [nesting_level |-> 2, offset_index |-> "word", call_matches |-> 2, arithmetic |-> TRUE,
      vector_word |-> FALSE, reduction_word |-> FALSE, reduction_form |-> TRUE],
     [nesting_level |-> 2, offset_index |-> "none", call_matches |-> 5, arithmetic |-> FALSE,
      vector_word |-> FALSE, reduction_word |-> FALSE, reduction_form |-> FALSE],
     [nesting_level |-> 2, offset_index |-> "none", call_matches |-> 2, arithmetic |-> TRUE,
      vector_word |-> FALSE, reduction_word |-> FALSE, reduction_form |-> FALSE],
     [nesting_level |-> 1, offset_index |-> "none", call_matches |-> 1, arithmetic |-> TRUE,
      vector_word |-> FALSE, reduction_word |-> TRUE, reduction_form |-> TRUE],
     [nesting_level |-> 1, offset_index |-> "none", call_matches |-> 2, arithmetic |-> FALSE,
      vector_word |-> FALSE, reduction_word |-> TRUE, reduction_form |-> FALSE],
     [nesting_level |-> 1, offset_index |-> "none", call_matches |-> 4, arithmetic |-> FALSE,
      vector_word |-> FALSE, reduction_word |-> FALSE, reduction_form |-> FALSE],
     [nesting_level |-> 1, offset_index |-> "digit", call_matches |-> 1, arithmetic |-> TRUE,
      vector_word |-> FALSE, reduction_word |-> FALSE, reduction_form |-> FALSE]}

\* the blocks of a file: none, one loop over all the lines or over the first
\* four, or two loops one after or one inside the other, in either order of
\* the list
BlockLists ==
    {<<>>} \cup
    {<<ParseLoopBlock(1, e, t)>> : e \in {4, 8}, t \in BlockTexts} \cup
    {<<ParseLoopBlock(s[1], s[2], t1), ParseLoopBlock(s[3], s[4], t2)>> :
        s \in {<<1, 4, 5, 8>>, <<1, 8, 2, 4>>, <<2, 4, 1, 8>>}, t1 \in BlockTexts, t2 \in BlockTexts}

\* the results to unify: on line 3, on line 6, or without a line; classified by
\* the AI or not
UnifyResultInputs ==
    UNION {{[line |-> l, candidate_type |-> "vectorizable",
             ai_analysis |-> [classification |-> "safe_parallel", confidence |-> 90]],
            [line |-> l, candidate_type |-> "risky",
             ai_analysis |-> [classification |-> "not_parallel", confidence |-> 70]],
            [line |-> l, candidate_type |-> "simple_loop"]} : l \in {3, 6}}
    \cup {[candidate_type |-> "risky",
           ai_analysis |-> [classification |-> "not_parallel", confidence |-> 70]]}

InitUnify ==
    /\ un_in \in [results : UNION {[1..n -> UnifyResultInputs] : n \in 0..MaxUnifyResults},
                  code_blocks : BlockLists]
    /\ un_out = NoResult
    /\ IdleValidator /\ IdleScorer /\ IdleCache /\ IdleHotspot /\ IdleDedup /\ IdlePipeline
    /\ IdleBlocks

UnifyBlocks ==
    /\ un_out = NoResult
    /\ un_out' = [status |-> "returned",
                  results |-> UnifyBlockAnalysis(un_in.results, un_in.code_blocks)]
    /\ UNCHANGED <<un_in, validatorVars, scorerVars, cacheVars, hotspotVars, dedupVars,
                       pipelineVars,
                   blockVars>>

NextUnify == UnifyBlocks

SpecUnify == InitUnify /\ [][NextUnify]_vars

(***************************************************************************)
(* CodeBlockAnalyzer.analyze_code_blocks (code_block_analyzer.py).         *)
(*                                                                         *)
(* A line of the file is given by what the analyzer reads from it:         *)
(*   header      re.match(r'\s*(for|while)\s*\(', line) matches            *)
(*   loop        re.search(r'\s*(for|while)\s*\(', line) matches           *)
(*   opens       line.count('{')                                           *)
(*   closes      line.count('}')                                           *)
(*   arithmetic  one of * + - / occurs in the line                         *)
(*   calls       the number of matches of \w+\s*\(.*\) in the line         *)
(* Indices named idx count from 0, as in the source; line numbers count    *)
(* from 1.                                                                 *)
(***************************************************************************)

\* _parse_loop_block: the first of the lines start_idx .. start_idx + 2 that
\* holds '{', or -1
RECURSIVE BraceLine(_, _, _)
BraceLine(lines, idx, start_idx) ==
    IF idx >= Min(start_idx + 3, Len(lines)) THEN -1
    ELSE IF lines[idx + 1].opens > 0 THEN idx
    ELSE BraceLine(lines, idx + 1, start_idx)

\* _parse_loop_block: the line number of the matching closing brace, or -1
RECURSIVE MatchingEndLine(_, _, _)
MatchingEndLine(lines, idx, brace_count) ==
    IF idx >= Len(lines) THEN -1
    ELSE IF /\ brace_count + lines[idx + 1].opens - lines[idx + 1].closes = 0
            /\ lines[idx + 1].closes > 0
         THEN idx + 1
         ELSE MatchingEndLine(lines, idx + 1,
                              brace_count + lines[idx + 1].opens - lines[idx + 1].closes)

\* _parse_loop_block: end_line, -1 when the block is not parsed
LoopEndLine(lines, start_idx) ==
    IF BraceLine(lines, start_idx, start_idx) = -1 THEN -1
    ELSE MatchingEndLine(lines, BraceLine(lines, start_idx, start_idx), 0)

\* _calculate_nesting_level: one line; nesting is [current_nesting, max_nesting]
NestingAfterLine(nesting, line) ==
    [current_nesting |->
        IF line.closes > 0
        THEN Max(0, nesting.current_nesting + (IF line.loop THEN 1 ELSE 0) - line.closes)
        ELSE nesting.current_nesting + (IF line.loop THEN 1 ELSE 0),
     max_nesting |->
        IF line.loop THEN Max(nesting.max_nesting, nesting.current_nesting + 1)
        ELSE nesting.max_nesting]

RECURSIVE NestingAfter(_, _)
NestingAfter(block_lines, n) ==
    IF n = 0 THEN [current_nesting |-> 0, max_nesting |-> 0]
    ELSE NestingAfterLine(NestingAfter(block_lines, n - 1), block_lines[n])

\* _calculate_nesting_level
CalculateNestingLevel(block_lines) == NestingAfter(block_lines, Len(block_lines)).max_nesting

RECURSIVE CallMatches(_, _)
CallMatches(block_lines, n) ==
    IF n = 0 THEN 0 ELSE CallMatches(block_lines, n - 1) + block_lines[n].calls

\* what the text tests of the analyzer find in '\n'.join(block_lines)
BlockText(block_lines) ==
    [nesting_level |-> CalculateNestingLevel(block_lines),
     offset_index |-> "none",
     call_matches |-> CallMatches(block_lines, Len(block_lines)),
     arithmetic |-> \E i \in 1..Len(block_lines) : block_lines[i].arithmetic,
     vector_word |-> FALSE, reduction_word |-> FALSE, reduction_form |-> FALSE]

\* _parse_loop_block at start_idx, parsed up to end_line; child_blocks = []
ParsedLoopBlock(lines, start_idx, end_line) ==
    [child_blocks |-> <<>>] @@
    ParseLoopBlock(start_idx + 1, end_line, BlockText(SubSeq(lines, start_idx + 1, end_line)))

\* _identify_loop_blocks: the loop from index idx on
RECURSIVE IdentifyLoopBlocksFrom(_, _)
IdentifyLoopBlocksFrom(lines, idx) ==
    IF idx >= Len(lines) THEN <<>>
    ELSE IF lines[idx + 1].header /\ LoopEndLine(lines, idx) # -1
         THEN <<ParsedLoopBlock(lines, idx, LoopEndLine(lines, idx))>>
              \o IdentifyLoopBlocksFrom(lines, LoopEndLine(lines, idx))
         ELSE IdentifyLoopBlocksFrom(lines, idx + 1)

\* _identify_loop_blocks
IdentifyLoopBlocks(lines) == IdentifyLoopBlocksFrom(lines, 0)

\* _identify_function_blocks: its loop body is pass
IdentifyFunctionBlocks(lines) == <<>>

\* all_blocks.sort(key=lambda b: (b.start_line, -b.end_line)): b goes before x
BlockKeyGreater(b, x) ==
    \/ b.start_line > x.start_line
    \/ b.start_line = x.start_line /\ -b.end_line > -x.end_line

RECURSIVE InsertByBlockKey(_, _)
InsertByBlockKey(sorted, x) ==
    IF sorted = <<>> THEN <<x>>
    ELSE IF BlockKeyGreater(Head(sorted), x) THEN <<x>> \o sorted
    ELSE <<Head(sorted)>> \o InsertByBlockKey(Tail(sorted), x)

RECURSIVE SortBlocks(_)
SortBlocks(blocks) ==
    IF blocks = <<>> THEN <<>>
    ELSE InsertByBlockKey(SortBlocks(SubSeq(blocks, 1, Len(blocks) - 1)), blocks[Len(blocks)])

\* mutant of IsChildBlock: a block is compared with itself too
IsChildBlockOrSelf(blocks, i, j) ==
    /\ blocks[i].start_line <= blocks[j].start_line
    /\ blocks[i].end_line >= blocks[j].end_line

\* _establish_block_hierarchy: the condition under which blocks[j] is appended
\* to blocks[i].child_blocks
IsChildBlock(blocks, i, j) ==
    /\ i # j
    /\ blocks[i].start_line <= blocks[j].start_line
    /\ blocks[i].end_line >= blocks[j].end_line

\* _establish_block_hierarchy: child_blocks of blocks[i] after the inner loop
\* has passed blocks[1..n]; a child is named by its place in the list
RECURSIVE ChildBlocks(_, _, _)
ChildBlocks(blocks, i, n) ==
    IF n = 0 THEN blocks[i].child_blocks
    ELSE IF /\ IsChildBlock(blocks, i, n)
            /\ \A k \in 1..Len(ChildBlocks(blocks, i, n - 1)) :
                   ChildBlocks(blocks, i, n - 1)[k] # n
         THEN Append(ChildBlocks(blocks, i, n - 1), n)
         ELSE ChildBlocks(blocks, i, n - 1)

\* _establish_block_hierarchy
EstablishBlockHierarchy(blocks) ==
    [i \in 1..Len(blocks) |->
        [blocks[i] EXCEPT !.child_blocks = ChildBlocks(blocks, i, Len(blocks))]]

\* analyze_code_blocks
AnalyzeCodeBlocks(lines) ==
    EstablishBlockHierarchy(SortBlocks(IdentifyLoopBlocks(lines) \o IdentifyFunctionBlocks(lines)))

(***************************************************************************)
(* Specification of one call of CodeBlockAnalyzer.analyze_code_blocks on   *)
(* the lines of a file.                                                    *)
(***************************************************************************)
MaxFileLines == 5

Line(header, loop, opens, closes, arithmetic, calls) ==
    [header |-> header, loop |-> loop, opens |-> opens, closes |-> closes,
     arithmetic |-> arithmetic, calls |-> calls]

\* the lines of the files analysed
FileLines ==
    {Line(TRUE, TRUE, 1, 0, TRUE, 1),      \* 'for (int i = 0; i < n; i++) {'
     Line(TRUE, TRUE, 0, 0, FALSE, 1),     \* 'while (i < n)'
     Line(TRUE, TRUE, 1, 1, TRUE, 1),      \* 'for (int i = 0; i < n; i++) { a[i] = 0; }'
     Line(FALSE, TRUE, 1, 0, TRUE, 1),     \* 'if (x) for (int j = 0; j < m; j++) {'
     Line(FALSE, FALSE, 1, 0, FALSE, 0),   \* '{'
     Line(FALSE, FALSE, 0, 1, FALSE, 0),   \* '}'
     Line(FALSE, FALSE, 0, 0, FALSE, 0)}   \* 'a[i] = b[i];'

InitBlocks ==
    /\ cb_in \in [op : {"analyze_code_blocks"},
                  lines : UNION {[1..n -> FileLines] : n \in 0..MaxFileLines}]
    /\ cb_out = NoResult
    /\ IdleValidator /\ IdleScorer /\ IdleCache /\ IdleHotspot /\ IdleDedup /\ IdleUnify
    /\ IdlePipeline

\* analyze_code_blocks(code_content, filename)
AnalyzeCodeBlocksCall ==
    /\ cb_in.op = "analyze_code_blocks"
    /\ cb_out = NoResult
    /\ cb_out' = [status |-> "analyzed", blocks |-> AnalyzeCodeBlocks(cb_in.lines)]
    /\ UNCHANGED <<cb_in, validatorVars, scorerVars, cacheVars, hotspotVars, dedupVars,
                   unifyVars, pipelineVars>>

NextBlocks == AnalyzeCodeBlocksCall

SpecBlocks == InitBlocks /\ [][NextBlocks]_vars

(***************************************************************************)
(* HybridAnalyzer.analyze_file (hybrid_analyzer.py) and what it calls:     *)
(* ConfidenceAnalyzer.prioritize_for_ai_analysis, the classifier           *)
(* (AIAnalyzer.analyze_single_candidate) and the pattern cache.            *)
(*                                                                         *)
(* analyze_file is a coroutine.  It gives up control at its awaits, the    *)
(* detector call and each classifier call, which run in the executor; the  *)
(* code between two awaits runs without interruption.  The service holds   *)
(* one HybridAnalyzer, so the calls in progress share its pattern cache.   *)
(***************************************************************************)

\* self.max_candidates_for_ai
MaxCandidatesForAi == 10

\* how a call ends: it returns a value, or an exception leaves it
Returned(value) == [raised |-> FALSE, value |-> value]
Raised(exception) == [raised |-> TRUE, exception |-> exception]

\* prioritize_for_ai_analysis: candidates_with_scores
RECURSIVE WithScores(_)
WithScores(s) ==
    IF s = <<>> THEN <<>>
    ELSE IF "confidence_score" \in DOMAIN Head(s)
         THEN <<Head(s)>> \o WithScores(Tail(s))
         ELSE WithScores(Tail(s))

\* [c for c in prioritized if c['confidence_score'] >= threshold and c not in selected]
RECURSIVE KeepUnselected(_, _, _)
KeepUnselected(s, threshold, selected) ==
    IF s = <<>> THEN <<>>
    ELSE IF /\ Head(s).confidence_score >= threshold
            /\ \A i \in 1..Len(selected) : selected[i] # Head(s)
         THEN <<Head(s)>> \o KeepUnselected(Tail(s), threshold, selected)
         ELSE KeepUnselected(Tail(s), threshold, selected)

\* prioritize_for_ai_analysis: one of the two later tiers, taken while slots remain
ExtendSelected(selected, prioritized, threshold, max_ai_candidates) ==
    IF max_ai_candidates - Len(selected) > 0
    THEN selected \o Take(KeepUnselected(prioritized, threshold, selected),
                          max_ai_candidates - Len(selected))
    ELSE selected

\* prioritize_for_ai_analysis: the closing log line reads selected[-1] and selected[0]
LogSelected(selected) ==
    IF selected = <<>> THEN Raised("IndexError") ELSE Returned(selected)

\* prioritize_for_ai_analysis: the three tiers over the sorted candidates
SelectTiers(prioritized, max_ai_candidates) ==
    ExtendSelected(
        ExtendSelected(Take(KeepAtLeast(prioritized, 90), Max(3, max_ai_candidates \div 3)),
                       prioritized, 75, max_ai_candidates),
        prioritized, 60, max_ai_candidates)

\* ConfidenceAnalyzer.prioritize_for_ai_analysis
PrioritizeForAiAnalysis(candidates, max_ai_candidates) ==
    IF candidates = <<>> THEN Returned(<<>>)
    ELSE LogSelected(SelectTiers(SortByScore(WithScores(candidates)), max_ai_candidates))

\* AIAnalyzer._create_heuristic_analysis: base_confidence by candidate type
HeuristicBaseConfidence(candidate_type) ==
    CASE candidate_type = CLit.embarrassingly_parallel -> 95
      [] candidate_type = CLit.vectorizable -> 85
      [] candidate_type = CLit.advanced_reduction -> 90
      [] candidate_type = CLit.parallel_loop -> 75
      [] candidate_type = CLit.simple_parallel -> 65
      [] candidate_type = CLit.reduction -> 80
      [] OTHER -> 50

\* AIAnalyzer._create_heuristic_analysis: the adjustments read from the context
\* text.  The context is given by what the text tests find in it.
HeuristicAdjustment(context) ==
    IF ~context.has_context THEN 0
    ELSE (IF context.standard_loop THEN 5 ELSE 0)
         + (IF context.array_operations THEN 5 ELSE 0)
         + (IF ~context.risky_calls THEN 5 ELSE 0)
         - (IF context.complex_control_flow THEN 10 ELSE 0)
         - (IF context.side_effects THEN 15 ELSE 0)

HeuristicClassification(final_confidence) ==
    IF final_confidence >= 80 THEN "safe_parallel"
    ELSE IF final_confidence >= 60 THEN "requires_runtime_check"
    ELSE "not_parallel"

HeuristicAnalysis(final_confidence) ==
    [classification |-> HeuristicClassification(final_confidence),
     confidence |-> final_confidence,
     analysis_source |-> "heuristic_analysis"]

\* AIAnalyzer._create_heuristic_analysis
CreateHeuristicAnalysis(candidate, context) ==
    HeuristicAnalysis(Clamp(10, 95, HeuristicBaseConfidence(candidate.candidate_type)
                                    + HeuristicAdjustment(context)))

\* SimpleGroqClient._create_fallback_analysis
CreateFallbackAnalysis ==
    [classification |-> "requires_runtime_check", confidence |-> 50,
     analysis_source |-> "fallback"]

\* AIAnalyzer.__init__: the attributes it sets
AIAnalyzerInit(simple_client_available) ==
    [groq_client |-> "None", simple_client |-> [available |-> simple_client_available]]

\* AIAnalyzer.is_available, with no full client
AiIsAvailable(ai_analyzer) == ai_analyzer.simple_client.available

\* AIAnalyzer.analyze_single_candidate.  Its try block reads self.simple_groq;
\* an object without that attribute raises AttributeError there, and the except
\* branch returns the heuristic analysis.  answer is what the batch call returns
\* for the candidate when the attribute exists.
AnalyzeSingleCandidate(ai_analyzer, candidate, context, answer) ==
    IF "simple_groq" \in DOMAIN ai_analyzer /\ ai_analyzer.simple_groq.available
    THEN answer
    ELSE CreateHeuristicAnalysis(candidate, context)

\* HybridAnalyzer._extract_candidate_context
ExtractCandidateContext(code_content, candidate) ==
    ExtractCodeContext(code_content, candidate.line)

\* PatternCache._extract_code_pattern of the candidate's context
CandidatePattern(code_content, candidate) ==
    ExtractCandidateContext(code_content, candidate).pattern

\* "if cached_analysis:"
CacheHit(result) == result.hit /\ DOMAIN result.analysis # {}

\* candidate['ai_analysis'] = ai_analysis
WithAiAnalysis(candidate, ai_analysis) ==
    [k \in DOMAIN candidate \cup {"ai_analysis"} |->
        IF k = "ai_analysis" THEN ai_analysis ELSE candidate[k]]

\* the phase whose log line or call analyze_file has reached is noted in the
\* call's record
Phase(run, name) == [run EXCEPT !.phases = Append(@, name)]

\* _calculate_hybrid_confidence: base_confidence + ai_boost, in hundredths
HybridBase(candidate_type, ai_classification) ==
    50
    + (IF candidate_type \in {CLit.vectorizable, CLit.embarrassingly_parallel} THEN 20
       ELSE IF candidate_type = <<"s","i","m","p","l","e","_","l","o","o","p">> THEN 10
       ELSE IF candidate_type = CLit.risky THEN -20
       ELSE 0)
    + (IF ai_classification = "safe_parallel" THEN 30
       ELSE IF ai_classification = "requires_runtime_check" THEN 0
       ELSE IF ai_classification = "not_parallel" THEN -40
       ELSE 10)

\* ai_analysis.get("confidence", 0.5) of result.get("ai_analysis", {})
AiConfidence(result) ==
    IF "ai_analysis" \in DOMAIN result /\ "confidence" \in DOMAIN result.ai_analysis
    THEN result.ai_analysis.confidence
    ELSE 50

\* ai_analysis.get("classification", "unknown")
AiClassification(result) ==
    IF "ai_analysis" \in DOMAIN result /\ "classification" \in DOMAIN result.ai_analysis
    THEN result.ai_analysis.classification
    ELSE "unknown"

\* _calculate_hybrid_confidence, in units of 1/2000:
\* (base_confidence + ai_boost + ai_confidence * 0.3) / 2 within [0.0, 1.0]
CalculateHybridConfidence(result) ==
    Clamp(0, 2000,
          10 * HybridBase(IF "candidate_type" \in DOMAIN result THEN result.candidate_type
                          ELSE CLit.unknown,
                          AiClassification(result))
          + 3 * AiConfidence(result))

\* _get_enhanced_confidence_analysis
GetEnhancedConfidenceAnalysis(settings, result, context) ==
    AnalyzeConfidenceWithValidation(settings.openmp_validator, result,
                                    context.has_context, context)

\* Phase 6, one result: result["hybrid_confidence"], result["enhanced_analysis"]
Finalize(result, hybrid_confidence, enhanced_analysis) ==
    [k \in DOMAIN result \cup {"hybrid_confidence", "enhanced_analysis"} |->
        IF k = "hybrid_confidence" THEN hybrid_confidence
        ELSE IF k = "enhanced_analysis" THEN enhanced_analysis
        ELSE result[k]]

\* Phase 6: the loop over the unified results
FinalizeAll(settings, results, code_content) ==
    [i \in 1..Len(results) |->
        Finalize(results[i], CalculateHybridConfidence(results[i]),
                 GetEnhancedConfidenceAnalysis(settings, results[i],
                                               ExtractCodeContext(code_content,
                                                                  results[i].line)))]

\* mutant of Finished: Phase 6 runs on the results as Phase 4 left them
FinishedWithoutUnification(run, settings, unified) ==
    [Phase(run, "FINALIZE") EXCEPT
        !.pc = "done",
        !.results = FinalizeAll(settings, run.results, run.code_content)]

\* Phase 6 and the return, on the results unified in Phase 5
Finished(run, settings, unified) ==
    [Phase(run, "FINALIZE") EXCEPT
        !.pc = "done", !.unified = unified,
        !.results = FinalizeAll(settings, unified, run.code_content)]

\* Phase 5, Phase 6 and the return
Finish(run, settings) ==
    Finished(Phase(run, "UNIFY_BLOCKS"), settings,
             UnifyBlockAnalysis(run.results, run.code_blocks))

\* a step of analyze_file: the call's record and the cache it leaves
StepResult(run, entries, index, file) ==
    [run |-> run, memory_cache |-> entries, pattern_index |-> index, cache_file |-> file]

\* cache_stats[key] += 1
Counted(run, key) == [run EXCEPT !.cache_stats[key] = @ + 1]

\* Phase 4, candidate i is not served from the cache: the classifier call is
\* made and awaited
Missed(run, i) ==
    [Counted(Counted(run, "total"), "misses") EXCEPT
        !.pc = "classify", !.idx = i, !.classifier_calls = @ + 1]

\* Phase 4, candidate i is served from the cache
ServedFromCache(run, i, cached_analysis) ==
    [Counted(Counted(run, "total"), "hits") EXCEPT
        !.results = Append(@, WithAiAnalysis(run.prioritized[i], cached_analysis))]

\* Phase 4, get_cached_analysis was called for a candidate: the call is noted
\* with what it returned and the number of analyses this call of analyze_file
\* had stored before it
LookedUpFor(run, result) ==
    [run EXCEPT !.lookup_log = Append(@, [hit |-> result.hit, stores_before |-> run.stores])]

\* Phase 4: the loop over prioritized_candidates from candidate i, up to the
\* await of the classifier at the first candidate not served from the cache
\* or to the end of the list
RECURSIVE ClassifyFrom(_, _, _, _, _, _, _)
RECURSIVE ClassifyLookup(_, _, _, _, _, _, _, _)
ClassifyFrom(run, settings, i, entries, index, file, t) ==
    IF i > Len(run.prioritized)
    THEN StepResult(Finish(run, settings), entries, index, file)
    ELSE IF settings.enable_pattern_caching
    THEN ClassifyLookup(run, settings, i,
                        GetCachedAnalysis(entries, index,
                                          CandidatePattern(run.code_content, run.prioritized[i]), t),
                        entries, index, file, t)
    ELSE StepResult(Missed(run, i), entries, index, file)

ClassifyLookup(run, settings, i, looked_up, entries, index, file, t) ==
    IF CacheHit(looked_up.result)
    THEN ClassifyFrom(ServedFromCache(LookedUpFor(run, looked_up.result), i,
                                      looked_up.result.analysis),
                      settings, i + 1, looked_up.entries, index, file, t)
    ELSE StepResult(Missed(LookedUpFor(run, looked_up.result), i),
                    looked_up.entries, index, file)

\* Phase 4, the classifier returned ai_analysis for candidate run.idx: the
\* candidate is appended
Classified(run, ai_analysis) ==
    [run EXCEPT !.results = Append(@, WithAiAnalysis(run.prioritized[run.idx], ai_analysis))]

\* mutant of StoreClassified: the analysis is not stored
StoreClassifiedNowhere(run, settings, pattern, ai_analysis, entries, index, file, max_size, t) ==
    ClassifyFrom(Classified(run, ai_analysis), settings, run.idx + 1, entries, index, file, t)

\* Phase 4, the analysis of candidate run.idx is stored, and the loop goes on
StoreClassified(run, settings, pattern, ai_analysis, entries, index, file, max_size, t) ==
    IF settings.enable_pattern_caching
    THEN ClassifyFrom([Classified(run, ai_analysis) EXCEPT !.stores = @ + 1],
                      settings, run.idx + 1,
                      CacheAnalysis(entries, index, file, max_size, pattern, ai_analysis,
                                    t).memory_cache,
                      CacheAnalysis(entries, index, file, max_size, pattern, ai_analysis,
                                    t).pattern_index,
                      CacheAnalysis(entries, index, file, max_size, pattern, ai_analysis,
                                    t).cache_file,
                      t)
    ELSE ClassifyFrom(Classified(run, ai_analysis), settings, run.idx + 1,
                      entries, index, file, t)

\* Phase 4, the classifier call for candidate run.idx returned
ClassifierStored(run, settings, answer, entries, index, file, max_size, t) ==
    StoreClassified(run, settings,
                    CandidatePattern(run.code_content, run.prioritized[run.idx]),
                    AnalyzeSingleCandidate(settings.ai_analyzer, run.prioritized[run.idx],
                                           ExtractCandidateContext(run.code_content,
                                                                   run.prioritized[run.idx]),
                                           answer),
                    entries, index, file, max_size, t)

\* Phase 4, the classifier call raised: the except branch logs, and the loop
\* goes on without the candidate
ClassifierRaised(run, settings, entries, index, file, t) ==
    ClassifyFrom([run EXCEPT !.failed = @ \cup {run.idx}],
                 settings, run.idx + 1, entries, index, file, t)

\* Phase 4, from the return of prioritize_for_ai_analysis to the first await
StartClassify(run, settings, prioritized, entries, index, file, t) ==
    IF prioritized.raised
    THEN StepResult([run EXCEPT !.pc = "raised", !.exception = prioritized.exception],
                    entries, index, file)
    ELSE ClassifyFrom([Phase(run, "CLASSIFY") EXCEPT
                          !.prioritized = prioritized.value, !.classified = TRUE],
                      settings, 1, entries, index, file, t)

\* Phase 4
AfterFiltering(run, settings, filtered_candidates, entries, index, file, t) ==
    IF AiIsAvailable(settings.ai_analyzer) /\ filtered_candidates # <<>>
    THEN StartClassify(Phase(run, "PRIORITIZE"), settings,
                       PrioritizeForAiAnalysis(filtered_candidates, settings.max_candidates_for_ai),
                       entries, index, file, t)
    ELSE StepResult(Finish([run EXCEPT !.results = filtered_candidates], settings),
                    entries, index, file)

\* Phase 3: filtered_candidates of filter_by_confidence for a list that is not
\* empty; the statistics it returns as well are only logged
ConfidenceFiltering(settings, llvm_results, code_content) ==
    IF settings.enable_confidence_filtering /\ llvm_results # <<>>
    THEN RetainedByConfidence(ScoreAll(settings.openmp_validator, llvm_results, code_content))
    ELSE llvm_results

\* Phase 2, after the detector returned: hotspot filtering of its results
HotspotFiltering(settings, llvm_results, hotspots) ==
    IF settings.enable_hotspot_filtering /\ hotspots # <<>>
    THEN FilterCandidatesByHotspots(llvm_results, hotspots)
    ELSE llvm_results

\* analyze_file from the end of Phase 2, with llvm_results as Phase 2 left it
AfterDetection(run, settings, llvm_results, entries, index, file, t) ==
    AfterFiltering(IF settings.enable_confidence_filtering /\ llvm_results # <<>>
                   THEN Phase([run EXCEPT !.llvm_results = llvm_results], "SCORE_CONFIDENCE")
                   ELSE [run EXCEPT !.llvm_results = llvm_results],
                   settings,
                   ConfidenceFiltering(settings, llvm_results, run.code_content),
                   entries, index, file, t)

\* mutant of DetectorFailed: the exception of Phase 2 leaves analyze_file
DetectorFailedPropagates(run, settings, outcome, entries, index, file, t) ==
    StepResult([run EXCEPT !.detector = outcome, !.pc = "raised", !.exception = outcome],
               entries, index, file)

\* Phase 2 when the detector is not available, or is_available or the detector
\* call raises: llvm_results stays empty
DetectorFailed(run, settings, outcome, entries, index, file, t) ==
    AfterDetection([run EXCEPT !.detector = outcome], settings, <<>>,
                   entries, index, file, t)

\* Phase 2 when the detector call returned detected
DetectorReturned(run, settings, detected, entries, index, file, t) ==
    AfterDetection(IF settings.enable_hotspot_filtering /\ run.hotspots # <<>>
                   THEN Phase([run EXCEPT !.detector = "returned"], "FILTER_BY_HOTSPOT")
                   ELSE [run EXCEPT !.detector = "returned"],
                   settings,
                   HotspotFiltering(settings, detected, run.hotspots),
                   entries, index, file, t)

(***************************************************************************)
(* Specification of the service's HybridAnalyzer with analyze_file calls   *)
(* in progress on it at the same time, each from its start to its return.  *)
(***************************************************************************)
NumAnalyses == 2
MaxDetected == 2

\* a candidate as the detector reports it
DetectedCandidate(candidate_type, suggested_patch, line) ==
    [candidate_type |-> candidate_type, reason |-> R_none, function |-> FN_compute,
     hotspot_priority |-> FALSE, suggested_patch |-> suggested_patch, line |-> line]

\* the candidates the detector can report in the file analysed: in that file
\* they score 1.0, 0.88, 0.68 and 0.53
DetectedCandidates ==
    {DetectedCandidate(CLit.embarrassingly_parallel, SP_empty, 1),
     DetectedCandidate(CLit.vectorizable, SP_invalid, 2),
     DetectedCandidate(<<>>, SP_empty, 2),
     DetectedCandidate(<<>>, SP_invalid, 1)}

DetectorOutputs == UNION {[1..n -> DetectedCandidates] : n \in 0..MaxDetected}

\* the file analysed:
\*   'for (int i=0;i<n;i++) { a[i] = b[i]; }\n\n\n\nint c;'
\* FileContent[n] is the window around its line n: what the scorer, the
\* fingerprint extraction and the heuristic classifier find in that text
FileLine(pattern) ==
    [has_context |-> TRUE, risk |-> {"function_calls"},
     boost |-> {"simple_array_access", "local_variables_only", "arithmetic_heavy",
                "small_loop_body"},
     pattern |-> pattern, standard_loop |-> FALSE, array_operations |-> TRUE,
     risky_calls |-> FALSE, complex_control_flow |-> FALSE, side_effects |-> FALSE]

FileContent == <<FileLine(ForSimplePattern(4)), FileLine(ForSimplePattern(5))>>

\* what analyze_hotspots reports for the file
FileHotspots == <<[start_line |-> 1, end_line |-> 1, impact_score |-> 80]>>

\* the lines of the file as analyze_code_blocks reads them; its one block is
\* the loop on line 1
FileSourceLines ==
    <<Line(TRUE, TRUE, 1, 1, TRUE, 1),
      Line(FALSE, FALSE, 0, 0, FALSE, 0),
      Line(FALSE, FALSE, 0, 0, FALSE, 0),
      Line(FALSE, FALSE, 0, 0, FALSE, 0),
      Line(FALSE, FALSE, 0, 0, FALSE, 0)>>

\* HybridAnalyzer.__init__
HybridAnalyzerInit(confidence_filtering, hotspot_filtering, pattern_caching, ai_available) ==
    [enable_confidence_filtering |-> confidence_filtering,
     enable_hotspot_filtering |-> hotspot_filtering,
     enable_pattern_caching |-> pattern_caching,
     max_candidates_for_ai |-> MaxCandidatesForAi,
     openmp_validator |-> [available |-> TRUE, verified_patterns |-> <<>>],
     ai_analyzer |-> AIAnalyzerInit(ai_available)]

\* an analyze_file call before its first statement
NewAnalysis ==
    [pc |-> "start", detector |-> "none", hotspots |-> <<>>, code_content |-> <<>>,
     code_blocks |-> <<>>, llvm_results |-> <<>>, prioritized |-> <<>>, classified |-> FALSE,
     idx |-> 0, results |-> <<>>, failed |-> {}, exception |-> "none",
     cache_stats |-> [hits |-> 0, misses |-> 0, total |-> 0],
     phases |-> <<>>, lookup_log |-> <<>>, classifier_calls |-> 0, stores |-> 0,
     unified |-> <<>>]

InitPipeline ==
    /\ hybrid_analyzer \in {HybridAnalyzerInit(c, h, p, s) :
                                c \in BOOLEAN, h \in BOOLEAN, p \in BOOLEAN, s \in BOOLEAN}
    /\ analyses = [a \in 1..NumAnalyses |-> NewAnalysis]
    /\ memory_cache = <<>>
    /\ pattern_index = EmptyIndex
    /\ cache_file = <<>>
    /\ max_cache_size = MaxCacheSize
    /\ now = 0
    /\ cache_call = NoInput
    /\ IdleValidator /\ IdleScorer /\ IdleHotspot /\ IdleDedup /\ IdleUnify
    /\ IdleBlocks

\* a step of call a leaves after: the call's record and the shared cache
Leaves(a, after) ==
    /\ analyses' = [analyses EXCEPT ![a] = after.run]
    /\ memory_cache' = after.memory_cache
    /\ pattern_index' = after.pattern_index
    /\ cache_file' = after.cache_file
    /\ UNCHANGED <<hybrid_analyzer, max_cache_size, now, cache_call, validatorVars,
                   scorerVars, hotspotVars, dedupVars, unifyVars,
                   blockVars>>

\* the file is read, and Phase 1 and Phase 1.5 run
FileRead(run, hotspot_filtering) ==
    [Phase(IF hotspot_filtering THEN Phase(run, "DETECT_HOTSPOTS") ELSE run,
           "PARTITION_BLOCKS")
        EXCEPT !.code_content = FileContent,
               !.hotspots = IF hotspot_filtering THEN FileHotspots ELSE <<>>,
               !.code_blocks = AnalyzeCodeBlocks(FileSourceLines)]

\* analyze_file up to the await of the detector: the file cannot be read and
\* the call returns [], or the detector is probed and, when it is available,
\* its call awaited
StartAnalysis(a) ==
    /\ analyses[a].pc = "start"
    /\ \E outcome \in {"unreadable", "available", "unavailable", "probe_raised"} :
         CASE outcome = "unreadable" ->
                Leaves(a, StepResult([analyses[a] EXCEPT !.pc = "done"],
                                     memory_cache, pattern_index, cache_file))
           [] outcome = "available" ->
                Leaves(a, StepResult([Phase(FileRead(analyses[a],
                                                     hybrid_analyzer.enable_hotspot_filtering),
                                            "RAW_CANDIDATES")
                                         EXCEPT !.pc = "detect"],
                                     memory_cache, pattern_index, cache_file))
           [] OTHER ->
                Leaves(a, DetectorFailed(FileRead(analyses[a],
                                                  hybrid_analyzer.enable_hotspot_filtering),
                                         hybrid_analyzer, outcome,
                                         memory_cache, pattern_index, cache_file, now))

\* the awaited detector call ends, with a list or with an exception, and
\* analyze_file runs on to the await of the classifier or to its end
DetectorEnds(a) ==
    /\ analyses[a].pc = "detect"
    /\ \/ Leaves(a, DetectorFailed(analyses[a], hybrid_analyzer, "raised",
                                   memory_cache, pattern_index, cache_file, now))
       \/ \E detected \in DetectorOutputs :
            Leaves(a, DetectorReturned(analyses[a], hybrid_analyzer, detected,
                                       memory_cache, pattern_index, cache_file, now))

\* the classifier's answers for a candidate
ClassifierAnswers == {CreateFallbackAnalysis}

\* the awaited classifier call ends, with an analysis or with an exception,
\* and analyze_file runs on to the next await or to its end
ClassifierEnds(a) ==
    /\ analyses[a].pc = "classify"
    /\ \/ Leaves(a, ClassifierRaised(analyses[a], hybrid_analyzer,
                                  memory_cache, pattern_index, cache_file, now))
       \/ \E answer \in ClassifierAnswers :
            Leaves(a, ClassifierStored(analyses[a], hybrid_analyzer, answer,
                                       memory_cache, pattern_index, cache_file,
                                       max_cache_size, now))

NextPipeline == \E a \in 1..NumAnalyses : StartAnalysis(a) \/ DetectorEnds(a) \/ ClassifierEnds(a)

SpecPipeline == InitPipeline /\ [][NextPipeline]_vars

(***************************************************************************)
(* Specification of one call of                                            *)
(* ConfidenceAnalyzer.prioritize_for_ai_analysis(candidates,               *)
(* max_ai_candidates) on a list of candidates, scored or not.              *)
(***************************************************************************)
MaxPrioritizeBatch == 5
MaxAiCandidates == 4

\* the candidates of a call: four of the very-high tier (two of them with one
\* score), one of the high tier, one of the medium tier, one below every tier
\* and one that was never scored
PrioritizeCandidateInputs ==
    {[line |-> 1, confidence_score |-> 95],
     [line |-> 2, confidence_score |-> 95],
     [line |-> 3, confidence_score |-> 92],
     [line |-> 4, confidence_score |-> 90],
     [line |-> 5, confidence_score |-> 80],
     [line |-> 6, confidence_score |-> 65],
     [line |-> 7, confidence_score |-> 50],
     [line |-> 8]}

InitPrioritize ==
    /\ openmp_validator = NoValidator
    /\ sc_in \in [op : {"prioritize"},
                  candidates : UNION {[1..n -> PrioritizeCandidateInputs] :
                                         n \in 0..MaxPrioritizeBatch},
                  max_ai_candidates : 1..MaxAiCandidates]
    /\ sc_out = NoResult
    /\ IdleValidator /\ IdleCache /\ IdleHotspot /\ IdleDedup /\ IdleUnify /\ IdlePipeline
    /\ IdleBlocks

PrioritizeCall ==
    /\ sc_in.op = "prioritize"
    /\ sc_out = NoResult
    /\ sc_out' = [status |-> "prioritized"] @@
                 PrioritizeForAiAnalysis(sc_in.candidates, sc_in.max_ai_candidates)
    /\ UNCHANGED <<openmp_validator, sc_in, validatorVars, cacheVars, hotspotVars, dedupVars,
                   unifyVars, pipelineVars,
                   blockVars>>

NextPrioritize == PrioritizeCall

SpecPrioritize == InitPrioritize /\ [][NextPrioritize]_vars

(***************************************************************************)
(* Claims about the validator, checked under SpecValidator.                *)
(***************************************************************************)

\* the confidence deltas the specification fixes for each status
SpecifiedDeltas(status) ==
    CASE status = "verified" -> {30}
      [] status = "similar" -> {15}
      [] status = "compliant" -> {10}
      [] status = "unknown" -> {0}
      [] status = "non_compliant" -> {-15, -20}
      [] OTHER -> {}

\* the statuses from the highest delta to the lowest
StatusOrder == <<"verified", "similar", "compliant", "unknown", "non_compliant">>

\* C8: every result of validate_pragma_suggestion carries the delta fixed for
\* its status (verified +0.30, similar +0.15, compliant +0.10, non-compliant
\* -0.15 or -0.20), and these deltas are strictly ordered
\* verified > similar > compliant > 0.0 (unknown) > non-compliant.
C8_DeltaFixedByStatus ==
    v_out # NoResult =>
        /\ v_out.confidence_boost \in SpecifiedDeltas(v_out.status)
        /\ \A i, j \in 1..Len(StatusOrder) :
               i < j => \A a \in SpecifiedDeltas(StatusOrder[i]) :
                            \A b \in SpecifiedDeltas(StatusOrder[j]) : a > b

C8_Witness ==
    /\ v_out # NoResult
    /\ v_out.status = "similar"
    /\ v_out.confidence_boost = 15

IsBlank(text) == \A i \in 1..Len(text) : text[i] \in {" ", "\t", "\n"}

\* C9: validating an empty or whitespace-only directive returns status
\* non-compliant with delta -0.20 and the empty-pragma note, for every
\* pattern-type hint and every corpus.
C9_EmptyPragmaNonCompliant ==
    (v_out # NoResult /\ IsBlank(v_in.pragma)) =>
        /\ v_out.status = "non_compliant"
        /\ v_out.confidence_boost = -20
        /\ v_out.compliance_notes = <<"Empty pragma provided">>

C9_Witness ==
    /\ v_out # NoResult
    /\ v_in.pragma = P_blank_mixed
    /\ v_in.pattern_type = VLit.vectorizable
    /\ verified_patterns # <<>>
    /\ v_out.confidence_boost = -20

\* some corpus entry has the normalized text of the pragma validated and the
\* pattern type of the call (a call without a pattern type matches every type)
ExactMatchExists ==
    \E i \in 1..Len(verified_patterns) :
        /\ NormalizePragma(verified_patterns[i].pragma) = NormalizePragma(v_in.pragma)
        /\ (v_in.pattern_type \in {None, <<>>}
            \/ verified_patterns[i].pattern_type = v_in.pattern_type)

\* the similarity of corpus entry i to the pragma validated is at least 0.6
ReachesSimilarity(i, similarity) == 100 * similarity.num >= 60 * similarity.den

SimilarMatchExists ==
    \E i \in 1..Len(verified_patterns) :
        ReachesSimilarity(i, PatternSimilarity(NormalizePragma(v_in.pragma),
                                               NormalizePatternType(v_in.pattern_type),
                                               NormalizePragma(verified_patterns[i].pragma),
                                               verified_patterns[i].pattern_type))

\* C12: the matchers of validate_pragma_suggestion apply in a fixed order and
\* the first that hits decides: an exact normalized corpus match of the call's
\* pattern type gives verified, also when a similar match or the syntax table
\* applies; otherwise a corpus entry of similarity at least 0.6 gives similar;
\* only when neither hits does the syntax table decide (compliant or
\* non-compliant).
C12_FirstMatcherDecides ==
    v_out # NoResult =>
        IF ExactMatchExists THEN v_out.status = "verified"
        ELSE IF SimilarMatchExists THEN v_out.status = "similar"
        ELSE v_out.status \in {"compliant", "non_compliant"}

C12_Witness ==
    /\ v_out # NoResult
    /\ ExactMatchExists
    /\ SimilarMatchExists
    /\ CheckSyntaxCompliance(NormalizePragma(v_in.pragma)).valid
    /\ v_out.status = "verified"

(***************************************************************************)
(* Claims about the confidence scorer, checked under SpecScorer.           *)
(***************************************************************************)

Analyzed == sc_in.op = "analyze" /\ sc_out # NoResult
Filtered == sc_in.op = "filter" /\ sc_out # NoResult

BreakdownSum(breakdown) ==
    breakdown.base_pattern + breakdown.code_context + breakdown.metadata
        + breakdown.openmp_validation

\* C1: every confidence ConfidenceAnalyzer returns, and every confidence_score
\* filter_by_confidence writes on a candidate, lies in [0.0, 1.0], whatever the
\* sum of base prior, context modifier, metadata modifier and validation delta.
C1_ConfidenceInUnitInterval ==
    /\ Analyzed => (0 <= sc_out.confidence /\ sc_out.confidence <= 100)
    /\ Filtered => \A i \in 1..Len(sc_out.scored) :
                       /\ 0 <= sc_out.scored[i].confidence_score
                       /\ sc_out.scored[i].confidence_score <= 100

\* the components sum to less than 0.0 and the confidence returned is 0.0
C1_Witness ==
    /\ Analyzed
    /\ BreakdownSum(sc_out.confidence_breakdown) < 0
    /\ sc_out.confidence = 0

CountAtLeast(scored, threshold) ==
    Cardinality({i \in 1..Len(scored) : scored[i].confidence_score >= threshold})

\* every input candidate is scored, and the candidates returned are exactly
\* the scored ones at or above 0.6
ExactlyThoseAtThreshold(candidates, scored, filtered) ==
    /\ Len(scored) = Len(candidates)
    /\ \A i \in 1..Len(scored) : scored[i] = WithScore(candidates[i], scored[i].confidence_score)
    /\ \A j \in 1..Len(filtered) : filtered[j].confidence_score >= 60
    /\ \A j \in 1..Len(filtered) : \E i \in 1..Len(scored) : scored[i] = filtered[j]
    /\ Len(filtered) = CountAtLeast(scored, 60)

\* the counts of the statistics agree with the candidates returned
CountsAgree(scored, filtered, stats) ==
    /\ {"total", "filtered", "removed", "high_confidence_count"} \subseteq DOMAIN stats
    /\ stats.total = Len(scored)
    /\ stats.filtered = Len(filtered)
    /\ stats.total = stats.filtered + stats.removed
    /\ stats.high_confidence_count = CountAtLeast(filtered, 80)

\* the minimum and the maximum are the least and the greatest score
ExtremesAgree(scored, stats) ==
    /\ {"min_confidence", "max_confidence", "avg_confidence"} \subseteq DOMAIN stats
    /\ \E i \in 1..Len(scored) : scored[i].confidence_score = stats.min_confidence
    /\ \E i \in 1..Len(scored) : scored[i].confidence_score = stats.max_confidence
    /\ \A i \in 1..Len(scored) :
          /\ stats.min_confidence <= scored[i].confidence_score
          /\ scored[i].confidence_score <= stats.max_confidence

\* C20 as claimed: filter_by_confidence scores every candidate and returns
\* exactly those that score 0.6 or more, and in its statistics total = filtered
\* + removed, min <= average <= max, and high_confidence_count is the number of
\* returned candidates that score 0.8 or more.
C20_FilterAndStatisticsAgree ==
    sc_out.status = "filtered" =>
        /\ ExactlyThoseAtThreshold(sc_in.candidates, sc_out.scored, sc_out.filtered)
        /\ CountsAgree(sc_out.scored, sc_out.filtered, sc_out.stats)
        /\ ExtremesAgree(sc_out.scored, sc_out.stats)
        /\ FixedLeq(FloatOfHundredths(sc_out.stats.min_confidence), sc_out.stats.avg_confidence)
        /\ FixedLeq(sc_out.stats.avg_confidence, FloatOfHundredths(sc_out.stats.max_confidence))

\* C20 as amended: for a batch that is not empty the same holds with the average
\* between min and max up to the rounding of the float sum and quotient, which
\* is within total units in the last place; for an empty batch nothing is
\* returned and the statistics are total 0, filtered 0 and average 0.0 alone.
C20_FilterAndStatisticsAgreeUpToRounding ==
    sc_out.status = "filtered" =>
        IF sc_in.candidates = <<>>
        THEN /\ sc_out.filtered = <<>>
             /\ sc_out.stats = [total |-> 0, filtered |-> 0, avg_confidence |-> FixedZero]
        ELSE /\ ExactlyThoseAtThreshold(sc_in.candidates, sc_out.scored, sc_out.filtered)
             /\ CountsAgree(sc_out.scored, sc_out.filtered, sc_out.stats)
             /\ ExtremesAgree(sc_out.scored, sc_out.stats)
             /\ FixedLeq(FloatOfHundredths(sc_out.stats.min_confidence),
                         UlpsAbove(sc_out.stats.avg_confidence, sc_out.stats.total))
             /\ FixedLeq(sc_out.stats.avg_confidence,
                         UlpsAbove(FloatOfHundredths(sc_out.stats.max_confidence),
                                   sc_out.stats.total))

\* a batch of three candidates scoring 0.95 each, all returned, whose average
\* is below its minimum
C20_Witness ==
    /\ sc_out.status = "filtered"
    /\ Len(sc_out.filtered) = 3
    /\ sc_out.stats.min_confidence = 95
    /\ sc_out.stats.high_confidence_count = 3
    /\ ~FixedLeq(FloatOfHundredths(sc_out.stats.min_confidence), sc_out.stats.avg_confidence)

(***************************************************************************)
(* Claims about the pattern cache, checked under SpecCache.                *)
(***************************************************************************)

\* C2: a lookup that immediately follows the store of an analysis for the same
\* snippet and candidate returns that analysis, whatever the cache held before
\* and also when the store ran the capacity cleanup.
C2_StoreThenLookupReturnsPayload ==
    (cache_call.op = "lookup" /\ cache_call.round_trip) =>
        /\ cache_call.result.hit
        /\ cache_call.result.analysis = cache_call.stored

\* the weights of the attributes _calculate_pattern_similarity lists for
\* comparison, in hundredths: the similarity of two patterns by these weights
ComparedSimilarity(p, q) ==
    (IF p.loop_type = q.loop_type THEN 20 ELSE 0)
    + (IF p.array_access_pattern = q.array_access_pattern THEN 25 ELSE 0)
    + (IF p.operation_types = q.operation_types THEN 20 ELSE 0)
    + (IF p.has_function_calls = q.has_function_calls THEN 10 ELSE 0)
    + (IF p.has_control_flow = q.has_control_flow THEN 10 ELSE 0)
    + (IF p.memory_pattern = q.memory_pattern THEN 15 ELSE 0)

\* the cache holds one entry, unexpired and indexed in the bucket of the
\* pattern looked up, for another pattern that is similar to it
SimilarEntryOnly(pattern) ==
    /\ Len(memory_cache) = 1
    /\ IsCacheValid(memory_cache[1], now)
    /\ memory_cache[1].pattern_hash # HashPattern(pattern)
    /\ CategoryKey(memory_cache[1].pattern_hash) = CategoryKey(pattern)
    /\ \E i \in 1..Len(pattern_index[CategoryKey(pattern)]) :
           pattern_index[CategoryKey(pattern)][i] = memory_cache[1].pattern_hash
    /\ ComparedSimilarity(pattern, memory_cache[1].pattern_hash) >= SimilarityThreshold

\* C11: with one unexpired entry in the cache, a lookup for a similar but not
\* identical pattern of the same (loop type, access pattern) bucket, at least
\* 0.85 similar to the entry, returns the analysis stored in that entry.
C11_SimilarLookupReturnsPayload ==
    (cache_call.op = "lookup" /\ SimilarEntryOnly(cache_call.pattern)) =>
        /\ cache_call.result.hit
        /\ cache_call.result.analysis = memory_cache[1].analysis

\* C17: after the load of the durable cache, a missing or unparseable file has
\* given an empty cache, and every well-formed, unexpired entry of a parsed
\* file is in the in-memory cache, wherever the malformed entries sit.
C17_LoadSkipsOnlyMalformedEntries ==
    cache_call.op = "constructed" =>
        /\ cache_call.file_state # "parses" => memory_cache = <<>>
        /\ \A i \in 1..Len(cache_file) :
              (Constructs(cache_file[i]) /\ IsCacheValid(cache_file[i], now))
                  => \E j \in 1..Len(memory_cache) : memory_cache[j] = cache_file[i]

\* the age of an entry is below the TTL of 7 days
Unexpired(entry, t) == t - entry.timestamp < 7 * 24

\* entries after is entries before with the usage count of the entry at i
\* raised by one, and nothing else changed
CountedOnce(before, after, i) ==
    after = [before EXCEPT ![i] = [@ EXCEPT !.usage_count = @ + 1]]

\* C18: a lookup that finds an unexpired entry with exactly the query's
\* fingerprint returns that entry's payload and raises that entry's usage
\* count by exactly one; and no lookup returns the payload of an entry aged
\* 7 days or more, nor counts a use of it.
C18_ExactHitRule ==
    [][cache_call'.op = "lookup" =>
          /\ \A i \in 1..Len(memory_cache) :
                (/\ memory_cache[i].pattern_hash = HashPattern(cache_call'.pattern)
                 /\ Unexpired(memory_cache[i], now))
                    => /\ cache_call'.result.hit
                       /\ cache_call'.result.analysis = memory_cache[i].analysis
                       /\ CountedOnce(memory_cache, memory_cache', i)
          /\ cache_call'.result.hit =>
                \E i \in 1..Len(memory_cache) :
                    /\ Unexpired(memory_cache[i], now)
                    /\ cache_call'.result.analysis = memory_cache[i].analysis
          /\ Len(memory_cache') = Len(memory_cache)
          /\ \A i \in 1..Len(memory_cache) :
                ~Unexpired(memory_cache[i], now) => memory_cache'[i] = memory_cache[i]]_vars

\* an exact hit on an entry now used twice, beside an entry of another
\* fingerprint that has expired
C18_Witness ==
    /\ cache_call.op = "lookup"
    /\ cache_call.result.hit
    /\ \E i, j \in 1..Len(memory_cache) :
          /\ memory_cache[i].pattern_hash = HashPattern(cache_call.pattern)
          /\ memory_cache[i].usage_count = 2
          /\ ~Unexpired(memory_cache[j], now)

\* y is lower than x in (usage count, then creation time) order
StrictlyLower(y, x) ==
    \/ y.usage_count < x.usage_count
    \/ y.usage_count = x.usage_count /\ y.timestamp < x.timestamp

\* the entries a store has to choose from: those of the other fingerprints, and
\* the new one
StorePool(entries, pattern, ai_analysis, t) ==
    {entries[i] : i \in {k \in 1..Len(entries) : entries[k].pattern_hash # HashPattern(pattern)}}
        \cup {NewCachedAnalysis(HashPattern(pattern), ai_analysis, t)}

KeptOf(entries) == {entries[i] : i \in 1..Len(entries)}

\* C19: after every store the in-memory cache holds at most max_cache_size
\* entries, all of them from before the store or the new one, and no entry was
\* evicted while an entry lower in (usage count, creation time) order is kept.
C19_StoreEvictsLowestFirst ==
    [][cache_call'.op = "store" =>
          /\ Len(memory_cache') <= max_cache_size
          /\ KeptOf(memory_cache') \subseteq
                StorePool(memory_cache, cache_call'.pattern, cache_call'.analysis, now)
          /\ \A x \in StorePool(memory_cache, cache_call'.pattern, cache_call'.analysis, now)
                      \ KeptOf(memory_cache') :
                \A y \in KeptOf(memory_cache') : ~StrictlyLower(y, x)]_vars

\* a store whose cleanup evicted an entry and kept an older one that was used
\* more often
C19_Witness ==
    /\ cache_call.op = "store"
    /\ cache_call.evicted >= 1
    /\ \E i \in 1..Len(memory_cache) :
          /\ memory_cache[i].usage_count >= 2
          /\ memory_cache[i].timestamp < now

\* the unexpired entries _find_similar_pattern compares the pattern with: those
\* indexed in the pattern's category
ComparedEntries(entries, index, pattern, t) ==
    {i \in 1..Len(entries) :
        /\ IsCacheValid(entries[i], t)
        /\ \E k \in 1..Len(index[CategoryKey(pattern)]) :
               index[CategoryKey(pattern)][k] = entries[i].pattern_hash}

HotspotFiltered == hs_out # NoResult

\* the candidate without the keys the filter adds
Unmarked(candidate) ==
    [k \in DOMAIN candidate \ {"hotspot_score", "hotspot_priority"} |-> candidate[k]]

\* C5: every candidate filter_candidates_by_hotspots returns is a candidate of
\* its input list, and no candidate of the input list is returned twice.
C5_FilterReturnsSubset ==
    HotspotFiltered =>
        /\ \A i \in 1..Len(hs_out.candidates) :
              /\ hs_out.candidates[i].id \in 1..Len(hs_in.candidates)
              /\ Unmarked(hs_out.candidates[i]) = hs_in.candidates[hs_out.candidates[i].id]
        /\ \A i, j \in 1..Len(hs_out.candidates) :
              hs_out.candidates[i].id = hs_out.candidates[j].id => i = j

\* a candidate inside two hotspots is returned once, and one outside is dropped
C5_Witness ==
    /\ HotspotFiltered
    /\ Len(hs_in.hotspots) = 2
    /\ \E i \in 1..Len(hs_in.candidates) :
          /\ InHotspot(hs_in.hotspots[1], CandidateLine(hs_in.candidates[i]))
          /\ InHotspot(hs_in.hotspots[2], CandidateLine(hs_in.candidates[i]))
    /\ hs_out.candidates # <<>>
    /\ Len(hs_out.candidates) < Len(hs_in.candidates)

\* C6 as claimed: when a hotspot was detected, every candidate returned lies
\* inside a hotspot and is flagged hotspot_priority.
C6_RetainedLieInHotspot ==
    (HotspotFiltered /\ hs_in.hotspots # <<>>) =>
        \A i \in 1..Len(hs_out.candidates) :
            /\ \E h \in 1..Len(hs_in.hotspots) :
                  InHotspot(hs_in.hotspots[h], CandidateLine(hs_out.candidates[i]))
            /\ "hotspot_priority" \in DOMAIN hs_out.candidates[i]
            /\ hs_out.candidates[i].hotspot_priority

(***************************************************************************)
(* Claims about deduplication, checked under SpecDedup.                    *)
(***************************************************************************)
Deduplicated == dd_out # NoResult

\* the key (file, line, function) of a candidate
DedupKey(result) == <<ResultFile(result), ResultLine(result), ResultFunction(result)>>

\* C7: deduplication returns, in input order, the first candidate of each
\* distinct (file, line, function): no two candidates returned share a key, no
\* key of the input is lost, and as many candidates are returned as the input
\* has distinct keys.
C7_FirstOfEachKeyInOrder ==
    Deduplicated =>
        /\ \A i \in 1..Len(dd_out.results) :
              /\ dd_out.results[i].id \in 1..Len(dd_in.results)
              /\ dd_out.results[i] = dd_in.results[dd_out.results[i].id]
              /\ \A j \in 1..(dd_out.results[i].id - 1) :
                    DedupKey(dd_in.results[j]) # DedupKey(dd_out.results[i])
        /\ \A i, j \in 1..Len(dd_out.results) :
              /\ i < j => dd_out.results[i].id < dd_out.results[j].id
              /\ i # j => DedupKey(dd_out.results[i]) # DedupKey(dd_out.results[j])
        /\ \A i \in 1..Len(dd_in.results) :
              \E j \in 1..Len(dd_out.results) :
                  DedupKey(dd_out.results[j]) = DedupKey(dd_in.results[i])
        /\ Len(dd_out.results) =
              Cardinality({DedupKey(dd_in.results[i]) : i \in 1..Len(dd_in.results)})

\* five candidates of which the second and the fourth share a key are reduced
\* to four: the first, second, third and fifth
C7_Witness ==
    /\ Deduplicated
    /\ Len(dd_in.results) = 5
    /\ DedupKey(dd_in.results[2]) = DedupKey(dd_in.results[4])
    /\ Cardinality({DedupKey(dd_in.results[i]) : i \in 1..5}) = 4
    /\ dd_out.results = <<dd_in.results[1], dd_in.results[2], dd_in.results[3], dd_in.results[5]>>

(***************************************************************************)
(* Claims about block unification, checked under SpecUnify.                *)
(***************************************************************************)
Unified == un_out # NoResult

\* the blocks of the list that enclose the line and are no longer than any
\* other block that encloses it
SmallestEnclosing(result, code_blocks) ==
    {b \in 1..Len(code_blocks) :
        /\ code_blocks[b].start_line <= UnifyLine(result)
        /\ UnifyLine(result) <= code_blocks[b].end_line
        /\ \A c \in 1..Len(code_blocks) :
              (code_blocks[c].start_line <= UnifyLine(result)
                  /\ UnifyLine(result) <= code_blocks[c].end_line)
              => code_blocks[b].end_line - code_blocks[b].start_line
                     <= code_blocks[c].end_line - code_blocks[c].start_line}

\* C3: after _unify_block_analysis with a block list that is not empty, two
\* results returned whose lines have the same smallest enclosing block carry
\* the same classification, whatever they carried before.
C3_SameBlockSameClassification ==
    (Unified /\ un_in.code_blocks # <<>>) =>
        \A i, j \in 1..Len(un_out.results) :
            (/\ SmallestEnclosing(un_out.results[i], un_in.code_blocks) # {}
             /\ SmallestEnclosing(un_out.results[i], un_in.code_blocks)
                   = SmallestEnclosing(un_out.results[j], un_in.code_blocks))
            => Classification(un_out.results[i]) = Classification(un_out.results[j])

\* two results of one inner block went in with different classifications and
\* came out with the same
C3_Witness ==
    /\ Unified
    /\ Len(un_in.code_blocks) = 2
    /\ Len(un_in.results) = 2
    /\ SmallestEnclosing(un_in.results[1], un_in.code_blocks) = {2}
    /\ SmallestEnclosing(un_in.results[2], un_in.code_blocks) = {2}
    /\ Classification(un_in.results[1]) # Classification(un_in.results[2])
    /\ Len(un_out.results) = 2
    /\ Classification(un_out.results[1]) = Classification(un_out.results[2])

\* C4: a nested_loops block on which the data-dependency check fires has
\* parallelization potential 'limited', and every result unified into it is
\* classified requires_runtime_check, whatever its classification and candidate
\* type were.
C4_DependentNestedLoopsNeedRuntimeCheck ==
    \A b \in 1..Len(un_in.code_blocks) :
        (/\ un_in.code_blocks[b].block_type = "nested_loops"
         /\ CheckDataDependencies(un_in.code_blocks[b].code_content))
        => /\ un_in.code_blocks[b].parallelization_potential = "limited"
           /\ Unified =>
                 \A i \in 1..Len(un_out.results) :
                     b \in SmallestEnclosing(un_out.results[i], un_in.code_blocks)
                     => Classification(un_out.results[i]) = "requires_runtime_check"

\* a result the AI classified safe_parallel, of type vectorizable, is unified
\* into a nested loop with an index a[i-1] and comes out requires_runtime_check
C4_Witness ==
    /\ Unified
    /\ \E i \in 1..Len(un_in.results) :
          /\ \E b \in SmallestEnclosing(un_in.results[i], un_in.code_blocks) :
                un_in.code_blocks[b].code_content.offset_index = "digit"
          /\ Classification(un_in.results[i]) = "safe_parallel"
          /\ CandidateType(un_in.results[i]) = "vectorizable"
    /\ \E i \in 1..Len(un_out.results) :
          /\ "code_block" \in DOMAIN un_out.results[i]
          /\ un_out.results[i].code_block.parallelization_potential = "limited"
          /\ Classification(un_out.results[i]) = "requires_runtime_check"

\* the results that lie in no block of the list, in the order of the list
RECURSIVE OutsideEveryBlock(_, _)
OutsideEveryBlock(results, code_blocks) ==
    IF results = <<>> THEN <<>>
    ELSE IF SmallestEnclosing(Head(results), code_blocks) = {}
         THEN <<Head(results)>> \o OutsideEveryBlock(Tail(results), code_blocks)
         ELSE OutsideEveryBlock(Tail(results), code_blocks)

\* C25: _unify_block_analysis returns the candidates that lie in no detected
\* block (the line outside every block span, or no line) exactly as they were,
\* classifier payload unchanged and no block information attached; with no
\* blocks at all it returns the candidate list unchanged.
C25_OutsideBlocksPassThrough ==
    Unified =>
        /\ un_in.code_blocks = <<>> => un_out.results = un_in.results
        /\ OutsideEveryBlock(un_out.results, un_in.code_blocks)
              = OutsideEveryBlock(un_in.results, un_in.code_blocks)
        /\ \A i \in 1..Len(un_out.results) :
              SmallestEnclosing(un_out.results[i], un_in.code_blocks) = {}
              => "code_block" \notin DOMAIN un_out.results[i]

\* a classified result on a line after the only block and one inside it: the
\* first comes out as it went in, the second with the block's analysis
C25_Witness ==
    /\ Unified
    /\ Len(un_in.code_blocks) = 1
    /\ Len(un_in.results) = 2
    /\ UnifyLine(un_in.results[1]) = 6
    /\ "ai_analysis" \in DOMAIN un_in.results[1]
    /\ SmallestEnclosing(un_in.results[1], un_in.code_blocks) = {}
    /\ SmallestEnclosing(un_in.results[2], un_in.code_blocks) = {1}
    /\ un_out.results = <<un_out.results[1], un_in.results[1]>>
    /\ "code_block" \in DOMAIN un_out.results[1]

\* C26: a loop block on which the dependency heuristic fires (an index with an
\* offset like a[i+1], or more than two call-shaped matches) has
\* parallelization potential 'limited', whatever its block type.
C26_DependencyLimitsPotential ==
    \A b \in 1..Len(un_in.code_blocks) :
        CheckDataDependencies(un_in.code_blocks[b].code_content)
        => un_in.code_blocks[b].parallelization_potential = "limited"

\* C27: a group with a member that was classified not_parallel before the
\* unification receives the consensus not_parallel, whatever the block's type
\* and potential.
C27_UnsafeMemberKeepsBlockUnsafe ==
    Unified =>
        \A i \in 1..Len(un_in.results) :
            (/\ SmallestEnclosing(un_in.results[i], un_in.code_blocks) # {}
             /\ Classification(un_in.results[i]) = "not_parallel")
            => \A k \in 1..Len(un_out.results) :
                  SmallestEnclosing(un_out.results[k], un_in.code_blocks)
                      = SmallestEnclosing(un_in.results[i], un_in.code_blocks)
                  => Classification(un_out.results[k]) = "not_parallel"

\* a result but for its classifier payload and its block information
Candidate(result) ==
    [k \in DOMAIN result \ {"ai_analysis", "code_block"} |-> result[k]]

\* how many entries of the list are the candidate
Occurrences(results, candidate) ==
    Cardinality({i \in 1..Len(results) : Candidate(results[i]) = candidate})

\* C30: _unify_block_analysis returns exactly the candidates it was given, none
\* dropped, none duplicated, none added; only their order, classifier payload
\* and block information may differ.
C30_UnifyPreservesCandidates ==
    Unified =>
        /\ Len(un_out.results) = Len(un_in.results)
        /\ \A i \in 1..Len(un_in.results) :
              Occurrences(un_out.results, Candidate(un_in.results[i]))
                  = Occurrences(un_in.results, Candidate(un_in.results[i]))

\* a result without a line before one inside a block: both are returned, the
\* grouped one first
C30_Witness ==
    /\ Unified
    /\ un_in.code_blocks # <<>>
    /\ Len(un_in.results) = 2
    /\ SmallestEnclosing(un_in.results[1], un_in.code_blocks) = {}
    /\ SmallestEnclosing(un_in.results[2], un_in.code_blocks) # {}
    /\ Len(un_out.results) = 2
    /\ un_out.results[2] = un_in.results[1]
    /\ Candidate(un_out.results[1]) = Candidate(un_in.results[2])
    /\ un_out.results[1] # un_in.results[2]

(***************************************************************************)
(* Claims about analyze_file and the calls in progress on one analyzer.    *)
(***************************************************************************)

\* the fingerprint of the candidate whose classifier call is outstanding
OutstandingFingerprint(run) ==
    HashPattern(CandidatePattern(run.code_content, run.prioritized[run.idx]))

\* C13: two analyses in progress never both have a classifier call outstanding
\* for the same fingerprint: while one miss's call is awaited, a second lookup
\* of the fingerprint does not lead to a second call.
C13_NoRedundantClassifierCall ==
    \A a, b \in 1..NumAnalyses :
        (a # b /\ analyses[a].pc = "classify" /\ analyses[b].pc = "classify")
            => OutstandingFingerprint(analyses[a]) # OutstandingFingerprint(analyses[b])

\* candidate is in results, with some ai_analysis attached
KeptIn(results, candidate) ==
    \E j \in 1..Len(results) :
        /\ "ai_analysis" \in DOMAIN results[j]
        /\ DOMAIN candidate \subseteq DOMAIN results[j]
        /\ \A k \in DOMAIN candidate : results[j][k] = candidate[k]

\* candidate is in results with the fallback classification and confidence
KeptWithFallback(results, candidate) ==
    \E j \in 1..Len(results) :
        /\ "ai_analysis" \in DOMAIN results[j]
        /\ DOMAIN candidate \subseteq DOMAIN results[j]
        /\ \A k \in DOMAIN candidate : results[j][k] = candidate[k]
        /\ results[j].ai_analysis.classification = "requires_runtime_check"
        /\ results[j].ai_analysis.confidence = 50

\* C14: when analyze_file returns after CLASSIFY, every candidate selected for
\* it is in the output, and a candidate whose classifier call failed is there
\* with the fallback (requires_runtime_check, 0.5).
C14_SelectedCandidatesKept ==
    \A a \in 1..NumAnalyses :
        (analyses[a].pc = "done" /\ analyses[a].classified) =>
            \A i \in 1..Len(analyses[a].prioritized) :
                IF i \in analyses[a].failed
                THEN KeptWithFallback(analyses[a].results, analyses[a].prioritized[i])
                ELSE KeptIn(analyses[a].results, analyses[a].prioritized[i])

\* C15: an analysis whose detector was unavailable, or whose probe or call
\* raised, has no raw candidates, has returned, and returned the empty list;
\* no exception left it.
C15_DetectorFailureGivesEmptyList ==
    \A a \in 1..NumAnalyses :
        analyses[a].detector \in {"unavailable", "probe_raised", "raised"} =>
            /\ analyses[a].llvm_results = <<>>
            /\ analyses[a].pc = "done"
            /\ analyses[a].exception = "none"
            /\ analyses[a].results = <<>>

\* a call's awaited detector raised while the other call is classifying
C15_Witness ==
    \E a, b \in 1..NumAnalyses :
        /\ analyses[a].detector = "raised"
        /\ analyses[a].pc = "done"
        /\ analyses[b].pc = "classify"

\* C16: no stage that is left with zero qualifying candidates makes
\* analyze_file raise: a call never ends with an exception.
C16_NoneQualifyingIsNotAnError ==
    \A a \in 1..NumAnalyses : analyses[a].pc # "raised"

\* the phases of analyze_file in their order
PhaseOrder ==
    <<"DETECT_HOTSPOTS", "PARTITION_BLOCKS", "RAW_CANDIDATES", "FILTER_BY_HOTSPOT",
      "SCORE_CONFIDENCE", "PRIORITIZE", "CLASSIFY", "UNIFY_BLOCKS", "FINALIZE">>

PhaseIndex(name) == CHOOSE i \in 1..Len(PhaseOrder) : PhaseOrder[i] = name

Started(run, name) == \E i \in 1..Len(run.phases) : run.phases[i] = name

\* the phase that was started last
CurrentPhase(run) == run.phases[Len(run.phases)]

\* result is the unified result with the two entries of Phase 6 added
FinalizedFrom(result, unified) ==
    /\ DOMAIN result = DOMAIN unified \cup {"hybrid_confidence", "enhanced_analysis"}
    /\ \A k \in DOMAIN unified : result[k] = unified[k]
    /\ result.hybrid_confidence = CalculateHybridConfidence(unified)

\* the phases of one call are in order and what a phase needs is there
PhasesInOrder(run) ==
    /\ \A i \in 1..Len(run.phases) : \E n \in 1..Len(PhaseOrder) : PhaseOrder[n] = run.phases[i]
    /\ \A i, j \in 1..Len(run.phases) :
          i < j => PhaseIndex(run.phases[i]) < PhaseIndex(run.phases[j])
    /\ run.pc = "detect" => CurrentPhase(run) = "RAW_CANDIDATES"
    /\ run.pc = "classify" => CurrentPhase(run) = "CLASSIFY"
    /\ Started(run, "UNIFY_BLOCKS") =>
          /\ run.pc = "done"
          /\ Started(run, "CLASSIFY") =>
                /\ run.cache_stats.total = Len(run.prioritized)
                /\ \A i \in 1..Len(run.prioritized) :
                      i \in run.failed \/ KeptIn(run.unified, run.prioritized[i])
    /\ Started(run, "FINALIZE") =>
          /\ Started(run, "UNIFY_BLOCKS")
          /\ Len(run.results) = Len(run.unified)
          /\ \A j \in 1..Len(run.results) : FinalizedFrom(run.results[j], run.unified[j])
    /\ \A j \in 1..Len(run.results) :
          "hybrid_confidence" \in DOMAIN run.results[j] => Started(run, "FINALIZE")

\* C21: the phases of an analyze_file call start in the fixed order, each at
\* most once, and none while the awaited call of an earlier phase is
\* outstanding; when UNIFY_BLOCKS starts every prioritized candidate has been
\* through CLASSIFY, and FINALIZE attaches hybrid_confidence to the results of
\* UNIFY_BLOCKS and to nothing else.
C21_PhasesRunInOrder ==
    \A a \in 1..NumAnalyses : PhasesInOrder(analyses[a])

\* a call has run all nine phases and returned two results, one served from
\* the cache, while the other call awaits the classifier
C21_Witness ==
    \E a, b \in 1..NumAnalyses :
        /\ analyses[a].pc = "done"
        /\ analyses[a].phases = PhaseOrder
        /\ Len(analyses[a].results) = 2
        /\ analyses[a].cache_stats.hits = 1
        /\ analyses[b].pc = "classify"

\* the lookups among the first n of a call that returned nothing
MissesAmong(lookup_log, n) == Cardinality({k \in 1..n : ~lookup_log[k].hit})

\* the candidates before candidate i whose classifier call raised
FailedBefore(run, i) == Cardinality({k \in run.failed : k < i})

\* the counts of Phase 4 agree: every candidate processed is a hit or a miss,
\* every miss is one classifier call, and a returned call has processed every
\* prioritized candidate
CountsOfClassify(run) ==
    /\ run.cache_stats.hits + run.cache_stats.misses = run.cache_stats.total
    /\ run.classifier_calls = run.cache_stats.misses
    /\ run.pc = "classify" => run.cache_stats.total = run.idx
    /\ run.pc = "done" => run.cache_stats.total = Len(run.prioritized)

\* every candidate processed was looked up once, a candidate whose lookup
\* returned an analysis is a hit, and before each lookup every analysis the
\* classifier had returned for an earlier candidate was stored
OneLookupEach(run) ==
    /\ Len(run.lookup_log) = run.cache_stats.total
    /\ run.cache_stats.misses = MissesAmong(run.lookup_log, Len(run.lookup_log))
    /\ \A i \in 1..Len(run.lookup_log) :
          run.lookup_log[i].stores_before
              = MissesAmong(run.lookup_log, i - 1) - FailedBefore(run, i)

\* C22 as stated: in CLASSIFY each prioritized candidate causes exactly one
\* lookup, the classifier is called only for a candidate whose lookup missed,
\* what it returns is stored before the next lookup, and the counts agree.
C22_OneLookupPerCandidate ==
    \A a \in 1..NumAnalyses :
        analyses[a].classified =>
            CountsOfClassify(analyses[a]) /\ OneLookupEach(analyses[a])

\* C22, amended: the above holds with enable_pattern_caching set; without it
\* no candidate is looked up, every candidate is a miss with a classifier
\* call of its own, and nothing is stored.
C22_OneLookupPerCandidateWhenCaching ==
    \A a \in 1..NumAnalyses :
        analyses[a].classified =>
            /\ CountsOfClassify(analyses[a])
            /\ IF hybrid_analyzer.enable_pattern_caching
               THEN OneLookupEach(analyses[a])
               ELSE /\ analyses[a].lookup_log = <<>>
                    /\ analyses[a].cache_stats.hits = 0
                    /\ analyses[a].stores = 0
                    /\ memory_cache = <<>>

\* a call has returned after a first candidate that missed and was classified
\* and a second whose lookup found the analysis stored for the first, with
\* pattern caching enabled
C22_Witness ==
    \E a \in 1..NumAnalyses :
        /\ hybrid_analyzer.enable_pattern_caching
        /\ analyses[a].pc = "done"
        /\ Len(analyses[a].lookup_log) >= 2
        /\ analyses[a].lookup_log[Len(analyses[a].lookup_log)].hit
        /\ analyses[a].lookup_log[Len(analyses[a].lookup_log)].stores_before = 1
        /\ analyses[a].stores = 1

(***************************************************************************)
(* Claims about prioritize_for_ai_analysis, checked under SpecPrioritize.  *)
(***************************************************************************)
Prioritized == sc_in.op = "prioritize" /\ sc_out # NoResult

\* C23: for every max_ai_candidates >= 1 and every input list,
\* prioritize_for_ai_analysis returns a list of at most max_ai_candidates
\* candidates, each of them a candidate of the input.
C23_SelectionIsBounded ==
    (Prioritized /\ ~sc_out.raised) =>
        /\ Len(sc_out.value) <= sc_in.max_ai_candidates
        /\ \A i \in 1..Len(sc_out.value) :
              \E j \in 1..Len(sc_in.candidates) : sc_in.candidates[j] = sc_out.value[i]

\* the number of very-high candidates taken first: max(3, max_ai_candidates // 3)
VeryHighAllocation(max_ai_candidates) == Max(3, max_ai_candidates \div 3)

\* the scored candidates of a tier: those with low <= confidence_score < high
TierOf(candidates, low, high) ==
    {i \in 1..Len(candidates) :
        /\ "confidence_score" \in DOMAIN candidates[i]
        /\ low <= candidates[i].confidence_score
        /\ candidates[i].confidence_score < high}

PairwiseDistinct(candidates) ==
    \A i, j \in 1..Len(candidates) : candidates[i] = candidates[j] => i = j

\* for pairwise different candidates and max_ai_candidates >= 3 the call
\* returns the max_ai_candidates highest-scoring candidates at or above 0.6
DistinctSelectionIsTopK ==
    (/\ Prioritized /\ ~sc_out.raised
     /\ PairwiseDistinct(sc_in.candidates)
     /\ sc_in.max_ai_candidates >= 3)
        => sc_out.value = Take(KeepAtLeast(SortByScore(WithScores(sc_in.candidates)), 60),
                               sc_in.max_ai_candidates)

\* a lower-tier candidate is selected while a higher-scoring one is left out
\* only when the one left out is equal to a selected candidate
LeftOutOnlyWhenEqual ==
    (Prioritized /\ ~sc_out.raised) =>
        \A i \in TierOf(sc_in.candidates, 60, 101) :
            (\E k \in 1..Len(sc_out.value) :
                 sc_out.value[k].confidence_score < sc_in.candidates[i].confidence_score)
                => \E k \in 1..Len(sc_out.value) : sc_out.value[k] = sc_in.candidates[i]

(***************************************************************************)
(* Claims about analyze_code_blocks, checked under SpecBlocks.             *)
(***************************************************************************)
BlocksAnalyzed == cb_in.op = "analyze_code_blocks" /\ cb_out # NoResult

\* blocks[j] is in the child set of blocks[i]
ChildOf(blocks, i, j) ==
    \E k \in 1..Len(blocks[i].child_blocks) : blocks[i].child_blocks[k] = j

\* j is reached from i along the child relation in at most Len(blocks) steps
Descendant(blocks, i, j) ==
    \E m \in 1..Len(blocks) :
        \E path \in [1..(m + 1) -> 1..Len(blocks)] :
            /\ path[1] = i
            /\ path[m + 1] = j
            /\ \A k \in 1..m : ChildOf(blocks, path[k], path[k + 1])

\* the span of blocks[j] lies in the span of blocks[i] and is not the same span
StrictlyInside(blocks, i, j) ==
    /\ blocks[i].start_line <= blocks[j].start_line
    /\ blocks[j].end_line <= blocks[i].end_line
    /\ <<blocks[i].start_line, blocks[i].end_line>>
           # <<blocks[j].start_line, blocks[j].end_line>>

\* C28: after analyze_code_blocks every block in a child set has a span
\* strictly contained in the span of its parent, and no block is in its own
\* child set, directly or through other blocks.
C28_ChildRelationStrictAcyclic ==
    BlocksAnalyzed =>
        \A i, j \in 1..Len(cb_out.blocks) :
            /\ ChildOf(cb_out.blocks, i, j) => StrictlyInside(cb_out.blocks, i, j)
            /\ ~Descendant(cb_out.blocks, i, i)

\* two blocks are returned, the first with a loop nested in it, and the
\* hierarchy has been established over them
C28_Witness ==
    /\ BlocksAnalyzed
    /\ Len(cb_out.blocks) = 2
    /\ cb_out.blocks[1].nesting_level = 2
    /\ cb_out.blocks[1].end_line - cb_out.blocks[1].start_line >= 2

\* the blocks returned do not overlap, so no block has a child
BlocksAreDisjoint ==
    BlocksAnalyzed =>
        /\ \A i \in 1..Len(cb_out.blocks) :
              /\ cb_out.blocks[i].start_line <= cb_out.blocks[i].end_line
              /\ cb_out.blocks[i].child_blocks = <<>>
        /\ \A i \in 1..(Len(cb_out.blocks) - 1) :
              cb_out.blocks[i].end_line < cb_out.blocks[i + 1].start_line

====
